---- MODULE Spec2Model ----
(***************************************************************************)
(* Model of the JSX style-attribute refactorer                             *)
(* (src/utils/transform-jsx-style-to-class-name.ts).                       *)
(*                                                                         *)
(* Source text is a TLA+ string; offsets are the 0-based, half-open        *)
(* offsets of the source (Slice models String.prototype.slice).  The       *)
(* syntax tree is the sequence of acorn nodes in the order in which walk   *)
(* visits them (pre-order, children in key order), every node carrying the *)
(* index of its parent and the key under which its parent holds it.        *)
(***************************************************************************)
EXTENDS Integers, Sequences, FiniteSets, TLC

(***************************************************************************)
(* Bounds of the model.                                                    *)
(***************************************************************************)
\* longest style object built from the full catalogue of property forms
MaxWideProps == 2
\* longest style object built from the compact catalogue, with every
\* variation of the surrounding element
MaxProps == 3
\* longest class name drawn from NameAlphabet
MaxNameLen == 2

(***************************************************************************)
(* Text helpers.                                                           *)
(***************************************************************************)
Min(a, b) == IF a < b THEN a ELSE b
Max(a, b) == IF a > b THEN a ELSE b

\* String.prototype.slice(from, to): negative indices count from the end,
\* indices are clamped to the string, an empty range gives "".
Slice(s, from, to) ==
  LET n == Len(s)
      f == IF from < 0 THEN Max(n + from, 0) ELSE Min(from, n)
      t == IF to < 0 THEN Max(n + to, 0) ELSE Min(to, n)
  IN  IF f >= t THEN "" ELSE SubSeq(s, f + 1, t)

CharAt(s, i) == Slice(s, i, i + 1)

StartsWith(s, p) == Len(s) >= Len(p) /\ Slice(s, 0, Len(p)) = p
EndsWith(s, p) == Len(s) >= Len(p) /\ Slice(s, Len(s) - Len(p), Len(s)) = p

\* s.includes(p)
Includes(s, p) ==
  \E i \in 0..(Len(s) - Len(p)) : Slice(s, i, i + Len(p)) = p

\* s.indexOf(p, from)
IndexFrom(s, p, from) ==
  IF \E i \in from..(Len(s) - Len(p)) : Slice(s, i, i + Len(p)) = p
  THEN CHOOSE i \in from..(Len(s) - Len(p)) :
         /\ Slice(s, i, i + Len(p)) = p
         /\ \A j \in from..(i - 1) : Slice(s, j, j + Len(p)) # p
  ELSE -1

\* Array.prototype.join
RECURSIVE Join(_, _)
Join(seq, sep) ==
  IF Len(seq) = 0 THEN ""
  ELSE IF Len(seq) = 1 THEN seq[1]
  ELSE seq[1] \o sep \o Join(Tail(seq), sep)

\* The grave accent (U+0060), the delimiter of template literals, cannot be
\* written inside a TLA+ string; this character stands for it in every text.
BT == "~"

Lower == {"a", "b", "c", "d", "e", "f", "g", "h", "i", "j", "k", "l", "m",
          "n", "o", "p", "q", "r", "s", "t", "u", "v", "w", "x", "y", "z"}
Upper == {"A", "B", "C", "D", "E", "F", "G", "H", "I", "J", "K", "L", "M",
          "N", "O", "P", "Q", "R", "S", "T", "U", "V", "W", "X", "Y", "Z"}
Digit == {"0", "1", "2", "3", "4", "5", "6", "7", "8", "9"}

(***************************************************************************)
(* JavaScript values of literals and their conversion to text.             *)
(* A value is [t, s, m, e]: t the type tag, s the text of a string,        *)
(* boolean, regular expression; m and e the number m * 10^(-e), with m not *)
(* divisible by 10 unless e = 0.                                           *)
(***************************************************************************)
JSString(s) == [t |-> "string", s |-> s, m |-> 0, e |-> 0]
JSBoolean(s) == [t |-> "boolean", s |-> s, m |-> 0, e |-> 0]
JSNull == [t |-> "null", s |-> "", m |-> 0, e |-> 0]
JSRegExp(s) == [t |-> "regexp", s |-> s, m |-> 0, e |-> 0]
JSNone == [t |-> "none", s |-> "", m |-> 0, e |-> 0]

RECURSIVE Pow10(_)
Pow10(k) == IF k = 0 THEN 1 ELSE 10 * Pow10(k - 1)

RECURSIVE NormalizeNumber(_, _)
NormalizeNumber(m, e) ==
  IF e > 0 /\ m % 10 = 0 THEN NormalizeNumber(m \div 10, e - 1)
  ELSE [t |-> "number", s |-> "", m |-> m, e |-> e]

DigitValue(c) ==
  CASE c = "0" -> 0 [] c = "1" -> 1 [] c = "2" -> 2 [] c = "3" -> 3
    [] c = "4" -> 4 [] c = "5" -> 5 [] c = "6" -> 6 [] c = "7" -> 7
    [] c = "8" -> 8 [] c = "9" -> 9
    [] c \in {"a", "A"} -> 10 [] c \in {"b", "B"} -> 11
    [] c \in {"c", "C"} -> 12 [] c \in {"d", "D"} -> 13
    [] c \in {"e", "E"} -> 14 [] c \in {"f", "F"} -> 15

DigitChar(d) ==
  CASE d = 0 -> "0" [] d = 1 -> "1" [] d = 2 -> "2" [] d = 3 -> "3"
    [] d = 4 -> "4" [] d = 5 -> "5" [] d = 6 -> "6" [] d = 7 -> "7"
    [] d = 8 -> "8" [] d = 9 -> "9"

\* the integer written by the digits of s in the given radix
RECURSIVE ParseDigits(_, _, _)
ParseDigits(s, radix, acc) ==
  IF Len(s) = 0 THEN acc
  ELSE ParseDigits(Slice(s, 1, Len(s)), radix,
                   acc * radix + DigitValue(CharAt(s, 0)))

IndexOfDot(s) ==
  IF \E i \in 0..(Len(s) - 1) : CharAt(s, i) = "."
  THEN CHOOSE i \in 0..(Len(s) - 1) :
         CharAt(s, i) = "." /\ \A j \in 0..(i - 1) : CharAt(s, j) # "."
  ELSE -1

\* The Number a numeric literal denotes (the parser's Literal.value):
\* hexadecimal integers and decimal literals with an optional fraction.
ParseNumber(raw) ==
  IF StartsWith(raw, "0x")
  THEN NormalizeNumber(ParseDigits(Slice(raw, 2, Len(raw)), 16, 0), 0)
  ELSE LET dot == IndexOfDot(raw)
       IN  IF dot < 0 THEN NormalizeNumber(ParseDigits(raw, 10, 0), 0)
           ELSE LET ip == Slice(raw, 0, dot)
                    fp == Slice(raw, dot + 1, Len(raw))
                IN  NormalizeNumber(ParseDigits(ip \o fp, 10, 0), Len(fp))

RECURSIVE NatToString(_)
NatToString(n) ==
  IF n < 10 THEN DigitChar(n)
  ELSE NatToString(n \div 10) \o DigitChar(n % 10)

\* the k decimal digits of n, zero-padded on the left
RECURSIVE FractionDigits(_, _)
FractionDigits(n, k) ==
  IF k = 0 THEN ""
  ELSE FractionDigits(n \div 10, k - 1) \o DigitChar(n % 10)

\* Number.prototype.toString for a non-negative decimal m * 10^(-e)
NumberToString(v) ==
  IF v.e = 0 THEN NatToString(v.m)
  ELSE NatToString(v.m \div Pow10(v.e)) \o "."
       \o FractionDigits(v.m % Pow10(v.e), v.e)

\* String(value)
ToJSString(v) ==
  CASE v.t = "string" -> v.s
    [] v.t = "number" -> NumberToString(v)
    [] v.t = "boolean" -> v.s
    [] v.t = "null" -> "null"
    [] v.t = "regexp" -> v.s
    [] OTHER -> "undefined"

\* Escape sequences resolved (the cooked value of string and template
\* text): backslash-n is a line feed, a backslash before any other
\* character stands for that character.
RECURSIVE Unescape(_)
Unescape(s) ==
  IF Len(s) = 0 THEN ""
  ELSE IF CharAt(s, 0) = "\\" /\ Len(s) >= 2
       THEN (IF CharAt(s, 1) = "n" THEN "\n" ELSE CharAt(s, 1))
            \o Unescape(Slice(s, 2, Len(s)))
       ELSE CharAt(s, 0) \o Unescape(Slice(s, 1, Len(s)))

\* the value of a quoted string literal
StringLiteralValue(raw) == JSString(Unescape(Slice(raw, 1, Len(raw) - 1)))

(***************************************************************************)
(* Source forms of style-object entries.  An entry is written              *)
(* pre keyText mid valText; the parser turns it into a Property (or        *)
(* SpreadElement) node with a key node and a value node.                   *)
(***************************************************************************)
Entry(ptype, computed, kind, pre, keyForm, keyText, mid, valForm, valText) ==
  [ptype |-> ptype, computed |-> computed, kind |-> kind, pre |-> pre,
   keyForm |-> keyForm, keyText |-> keyText, mid |-> mid,
   valForm |-> valForm, valText |-> valText,
   text |-> pre \o keyText \o mid \o valText]

Keyed(keyForm, keyText, valForm, valText) ==
  Entry("Property", FALSE, "init", "", keyForm, keyText, ": ", valForm, valText)

Computed(keyForm, keyText, valForm, valText) ==
  Entry("Property", TRUE, "init", "[", keyForm, keyText, "]: ", valForm, valText)

Spread(argText) ==
  Entry("SpreadElement", FALSE, "", "...", "none", "", "", "identifier", argText)

Catalogue ==
  << Keyed("identifier", "color", "string", "'red'"),
     Keyed("identifier", "width", "number", "1.50"),
     Keyed("identifier", "color", "identifier", "c"),
     Spread("sp"),
     Computed("string", "'color'", "string", "'blue'"),
     Keyed("string", "'font-size'", "string", "\"a\\\"b\""),
     Keyed("identifier", "zIndex", "number", "0x10"),
     Keyed("identifier", "order", "number", "2"),
     Keyed("identifier", "visible", "boolean", "true"),
     Keyed("identifier", "content", "template0", BT \o "a\\nb" \o BT),
     Keyed("identifier", "width", "template1", BT \o "${s}px" \o BT),
     Keyed("identifier", "color", "null", "null"),
     Keyed("identifier", "mask", "regexp", "/x/"),
     Keyed("identifier", "padding", "call", "f()"),
     Keyed("identifier", "margin", "member", "t.m"),
     Keyed("identifier", "opacity", "conditional", "a ? 1 : 0.5"),
     Keyed("identifier", "height", "binary", "h + 1"),
     Keyed("identifier", "top", "logical", "a || b"),
     Keyed("identifier", "left", "arrow", "() => 1"),
     Entry("Property", FALSE, "get", "get ", "identifier", "w", "",
           "function", "() { return 1 }"),
     Keyed("number", "0", "string", "'x'"),
     Computed("identifier", "k", "identifier", "v") >>

\* the entries used when the surrounding element is varied
Compact == 1..5

\* the node type the parser gives an expression of a given source form
ExpressionType(form) ==
  CASE form \in {"string", "number", "boolean", "null", "regexp"} -> "Literal"
    [] form \in {"template0", "template1"} -> "TemplateLiteral"
    [] form = "identifier" -> "Identifier"
    [] form = "call" -> "CallExpression"
    [] form = "member" -> "MemberExpression"
    [] form = "conditional" -> "ConditionalExpression"
    [] form = "binary" -> "BinaryExpression"
    [] form = "logical" -> "LogicalExpression"
    [] form = "arrow" -> "ArrowFunctionExpression"
    [] form = "function" -> "FunctionExpression"

\* Literal.value as the parser computes it from the literal's text
LiteralValue(form, text) ==
  CASE form = "string" -> StringLiteralValue(text)
    [] form = "number" -> ParseNumber(text)
    [] form = "boolean" -> JSBoolean(text)
    [] form = "null" -> JSNull
    [] form = "regexp" -> JSRegExp(text)
    [] OTHER -> JSNone

(***************************************************************************)
(* Syntax-tree nodes.                                                      *)
(***************************************************************************)
NodeOf(type, start, end, parent, role) ==
  [type |-> type, start |-> start, end |-> end, parent |-> parent,
   role |-> role, name |-> "", computed |-> FALSE, kind |-> "",
   value |-> JSNone, raw |-> "", nexpr |-> 0, cooked |-> ""]

\* the node of an expression written text at offset pos
ExpressionNode(form, text, pos, parent, role) ==
  [NodeOf(ExpressionType(form), pos, pos + Len(text), parent, role) EXCEPT
     !.name = IF form = "identifier" THEN text ELSE "",
     !.value = LiteralValue(form, text),
     !.raw = IF ExpressionType(form) = "Literal" THEN text ELSE "",
     !.nexpr = IF form = "template1" THEN 1 ELSE 0,
     !.cooked = IF form = "template0"
                THEN Unescape(Slice(text, 1, Len(text) - 1)) ELSE ""]

\* the nodes of one style-object entry written at offset pos; base is the
\* index its first node gets in the tree
EntryNodes(c, base, parent, pos) ==
  IF c.ptype = "SpreadElement"
  THEN << NodeOf("SpreadElement", pos, pos + Len(c.text), parent, "properties"),
          ExpressionNode(c.valForm, c.valText, pos + Len(c.pre), base,
                         "argument") >>
  ELSE LET keyPos == pos + Len(c.pre)
           valPos == keyPos + Len(c.keyText) + Len(c.mid)
       IN  << [NodeOf("Property", pos, pos + Len(c.text), parent, "properties")
                 EXCEPT !.computed = c.computed, !.kind = c.kind],
              ExpressionNode(c.keyForm, c.keyText, keyPos, base, "key"),
              ExpressionNode(c.valForm, c.valText, valPos, base, "value") >>

\* the nodes of the entries props written from offset pos on, after the
\* nodes acc of the entries before them; base is the index the first node
\* of the object gets in the tree
RECURSIVE EntriesNodes(_, _, _, _, _, _)
EntriesNodes(props, acc, base, parent, pos, sepLen) ==
  IF Len(props) = 0 THEN acc
  ELSE EntriesNodes(Tail(props),
                    acc \o EntryNodes(Catalogue[props[1]], base + Len(acc),
                                      parent, pos),
                    base, parent,
                    pos + Len(Catalogue[props[1]].text) + sepLen, sepLen)

(***************************************************************************)
(* Documents.  A document is one element                                   *)
(*     <div [class attribute] [style attribute]>x</div>                    *)
(* described by d: the entries of its style object (d.props), the shape of *)
(* the style attribute (d.style) and of a class attribute already there    *)
(* (d.cls, d.clsFirst), the layout (d.layout) and the text of a statement  *)
(* written before the element (d.prefix, "" or "a;" and a line feed).  The  *)
(* element may be written inside an element <p> (d.wrap) and may hold a    *)
(* child element instead of the text x (d.child).                          *)
(***************************************************************************)
EntryTexts(props) == [i \in 1..Len(props) |-> Catalogue[props[i]].text]

EntrySeparator(d) == IF d.layout = "inline" THEN ", " ELSE ",\n"
ObjectOpen(d) ==
  IF Len(d.props) = 0 THEN "{"
  ELSE IF d.layout = "inline" THEN "{ " ELSE "{\n"
ObjectClose(d) ==
  IF Len(d.props) = 0 THEN "}"
  ELSE IF d.layout = "inline" THEN " }" ELSE "\n}"

ObjectText(d) ==
  ObjectOpen(d) \o Join(EntryTexts(d.props), EntrySeparator(d)) \o ObjectClose(d)

StyleAttrText(d) ==
  CASE d.style = "object" -> "style={" \o ObjectText(d) \o "}"
    [] d.style = "ident" -> "style={s}"
    [] d.style = "string" -> "style=\"x\""
    [] d.style = "bare" -> "style"
    [] OTHER -> ""

ClassAttrText(d) ==
  CASE d.cls = "string" -> "class=\"a\""
    [] d.cls = "expr" -> "class={cx}"
    [] d.cls = "bare" -> "class"
    [] OTHER -> ""

\* the white space written before the style attribute
StyleSeparator(d) == IF d.layout = "inline" THEN " " ELSE "\n"

\* the attributes in source order, each with the white space before it
Attr(kind, sep, name, shape, text) ==
  [kind |-> kind, sep |-> sep, name |-> name, shape |-> shape, text |-> text]

\* a document the transform has written carries its attributes itself
AttrList(d) ==
  IF d.cls = "written" THEN d.attrs
  ELSE LET st == IF d.style = "none" THEN << >>
                 ELSE << Attr("style", StyleSeparator(d), "style", d.style,
                              StyleAttrText(d)) >>
           cl == IF d.cls = "none" THEN << >>
                 ELSE << Attr("class", " ", "class", d.cls,
                              ClassAttrText(d)) >>
       IN  IF d.clsFirst THEN cl \o st ELSE st \o cl

\* the white space between the last attribute and the end of the opening
\* tag
TagTrail(d) == IF d.cls = "written" THEN d.trail ELSE ""

RECURSIVE AttrsText(_)
AttrsText(attrs) ==
  IF Len(attrs) = 0 THEN ""
  ELSE attrs[1].sep \o attrs[1].text \o AttrsText(Tail(attrs))

OpeningText(d) == "<div" \o AttrsText(AttrList(d)) \o TagTrail(d) \o ">"

\* the opening tag of the element written around the element, "" if none
WrapOpen(d) ==
  CASE d.wrap = "object" -> "<p style={{ color: 'red' }}>"
    [] d.wrap = "ident" -> "<p style={s}>"
    [] d.wrap = "plain" -> "<p>"
    [] OTHER -> ""
WrapClose(d) == IF d.wrap = "none" THEN "" ELSE "</p>"

\* the child of the element: a text, a self-closing component, or a paired
\* element without attributes
ChildText(d) ==
  CASE d.child = "self" -> "<Box/>"
    [] d.child = "paired" -> "<b>y</b>"
    [] OTHER -> "x"

ElementText(d) == OpeningText(d) \o ChildText(d) \o "</div>"

\* the source text of the document
SourceText(d) == d.prefix \o WrapOpen(d) \o ElementText(d) \o WrapClose(d)

\* the nodes of the style attribute written from offset pos to offset end
StyleAttrNodes(d, base, parent, pos, end) ==
  << NodeOf("JSXAttribute", pos, end, parent, "attributes"),
     [NodeOf("JSXIdentifier", pos, pos + 5, base, "name")
        EXCEPT !.name = "style"] >>
  \o CASE d.style = "bare" -> << >>
       [] d.style = "string" ->
            << ExpressionNode("string", "\"x\"", pos + 6, base, "value") >>
       [] d.style = "ident" ->
            << NodeOf("JSXExpressionContainer", pos + 6, end, base, "value"),
               ExpressionNode("identifier", "s", pos + 7, base + 2,
                              "expression") >>
       [] OTHER ->
            << NodeOf("JSXExpressionContainer", pos + 6, end, base, "value"),
               NodeOf("ObjectExpression", pos + 7, end - 1, base + 2,
                      "expression") >>
            \o EntriesNodes(d.props, << >>, base + 4, base + 3,
                            pos + 7 + Len(ObjectOpen(d)),
                            Len(EntrySeparator(d)))

\* the nodes of the class attribute written from offset pos to offset end
\* a is the attribute: its name, the shape of its value (none, a string, the
\* identifier cx, a member expression or a template with expressions) and
\* its text
ClassAttrNodes(a, base, parent, pos, end) ==
  << NodeOf("JSXAttribute", pos, end, parent, "attributes"),
     [NodeOf("JSXIdentifier", pos, pos + Len(a.name), base, "name")
        EXCEPT !.name = a.name] >>
  \o CASE a.shape = "bare" -> << >>
       [] a.shape = "string" ->
            << ExpressionNode("string", "\"a\"", pos + Len(a.name) + 1, base,
                              "value") >>
       [] OTHER ->
            << NodeOf("JSXExpressionContainer", pos + Len(a.name) + 1, end,
                      base, "value"),
               ExpressionNode(IF a.shape = "expr" THEN "identifier"
                              ELSE a.shape,
                              Slice(a.text, Len(a.name) + 2, Len(a.text) - 1),
                              pos + Len(a.name) + 2, base + 2,
                              "expression") >>

\* the nodes of the attributes attrs written from offset pos on, after the
\* nodes acc of the attributes before them
RECURSIVE AttrsNodes(_, _, _, _, _, _)
AttrsNodes(d, attrs, acc, base, parent, pos) ==
  IF Len(attrs) = 0 THEN acc
  ELSE AttrsNodes(d, Tail(attrs),
                  acc \o (IF attrs[1].kind = "style"
                          THEN StyleAttrNodes(d, base + Len(acc), parent,
                                 pos + Len(attrs[1].sep),
                                 pos + Len(attrs[1].sep) + Len(attrs[1].text))
                          ELSE ClassAttrNodes(attrs[1], base + Len(acc), parent,
                                 pos + Len(attrs[1].sep),
                                 pos + Len(attrs[1].sep) + Len(attrs[1].text))),
                  base, parent,
                  pos + Len(attrs[1].sep) + Len(attrs[1].text))

\* path.basename(filePath, path.extname(filePath)) of the document
FileBaseName == "App"

\* import styles from './<fileBaseName>.module.css'
ModulePath(fileBaseName) == "./" \o fileBaseName \o ".module.css"
ImportStatement(fileBaseName) ==
  "import styles from '" \o ModulePath(fileBaseName) \o "'\n"

\* an import of the module the user wrote: it names the module path and is
\* not the statement the command writes
UserImport == "import '" \o ModulePath(FileBaseName) \o "'\n"

\* the nodes of the statements text written from offset pos on, before the
\* element: the statement a; and imports, each ended by a line feed; acc
\* holds the nodes before them, the Program node included
RECURSIVE StatementNodes(_, _, _)
StatementNodes(text, pos, acc) ==
  IF StartsWith(text, ImportStatement(FileBaseName))
  THEN StatementNodes(
         Slice(text, Len(ImportStatement(FileBaseName)), Len(text)),
         pos + Len(ImportStatement(FileBaseName)),
         acc \o << NodeOf("ImportDeclaration", pos,
                          pos + Len(ImportStatement(FileBaseName)) - 1, 1,
                          "body"),
                   NodeOf("ImportDefaultSpecifier", pos + 7, pos + 13,
                          Len(acc) + 1, "specifiers"),
                   ExpressionNode("identifier", "styles", pos + 7,
                                  Len(acc) + 2, "local"),
                   ExpressionNode("string",
                                  "'" \o ModulePath(FileBaseName) \o "'",
                                  pos + 19, Len(acc) + 1, "source") >>)
  ELSE IF StartsWith(text, UserImport)
  THEN StatementNodes(
         Slice(text, Len(UserImport), Len(text)), pos + Len(UserImport),
         acc \o << NodeOf("ImportDeclaration", pos,
                          pos + Len(UserImport) - 1, 1, "body"),
                   ExpressionNode("string",
                                  "'" \o ModulePath(FileBaseName) \o "'",
                                  pos + 7, Len(acc) + 1, "source") >>)
  ELSE IF StartsWith(text, "a;")
  THEN StatementNodes(
         Slice(text, 3, Len(text)), pos + 3,
         acc \o << NodeOf("ExpressionStatement", pos, pos + 2, 1, "body"),
                   ExpressionNode("identifier", "a", pos, Len(acc) + 1,
                                  "expression") >>)
  ELSE acc

\* the nodes of the statements written before the element
PrefixNodes(d) ==
  SubSeq(StatementNodes(d.prefix, 0, << 0 >>), 2,
         Len(StatementNodes(d.prefix, 0, << 0 >>)))

\* The offsets and indices of the tree of SourceText(d): o the start of the
\* outermost element, eo and ee the start and end of the element, openEnd
\* the end of its opening tag, closeStart the start of its closing tag, b
\* the index of the ExpressionStatement node, parent and role the place of
\* the element in the tree.
Geometry(d) ==
  [o |-> Len(d.prefix),
   eo |-> Len(d.prefix) + Len(WrapOpen(d)),
   openEnd |-> Len(d.prefix) + Len(WrapOpen(d)) + Len(OpeningText(d)),
   closeStart |-> Len(SourceText(d)) - Len(WrapClose(d)) - 6,
   ee |-> Len(SourceText(d)) - Len(WrapClose(d)),
   total |-> Len(SourceText(d)),
   b |-> 2 + Len(PrefixNodes(d)),
   parent |-> IF d.wrap = "none" THEN 2 + Len(PrefixNodes(d))
              ELSE 3 + Len(PrefixNodes(d)),
   role |-> IF d.wrap = "none" THEN "expression" ELSE "children"]

\* the nodes from the Program node to the statement holding the elements
HeadNodes(d, g) ==
  << NodeOf("Program", 0, g.total, 0, "") >>
  \o PrefixNodes(d)
  \o << NodeOf("ExpressionStatement", g.o, g.total, 1, "body") >>

\* the style attribute of the element written around the element
WrapStyle(d) ==
  [props |-> << 1 >>, style |-> d.wrap, cls |-> "none", clsFirst |-> FALSE,
   layout |-> "inline", prefix |-> "", wrap |-> "none", child |-> "text"]

\* nodes, followed by the nodes of the element written around the element,
\* up to its last attribute
WrapOpening(d, g, nodes) ==
  nodes
  \o << NodeOf("JSXElement", g.o, g.total, g.b, "expression"),
        NodeOf("JSXOpeningElement", g.o, g.eo, Len(nodes) + 1,
               "openingElement") >>
  \o (IF d.wrap = "plain" THEN << >>
      ELSE StyleAttrNodes(WrapStyle(d), Len(nodes) + 3, Len(nodes) + 2,
                          g.o + 3, g.eo - 1))

\* nodes, followed by the tag name and the closing element of the element
\* w written around the element
WrapClosing(g, w, nodes) ==
  nodes
  \o << [NodeOf("JSXIdentifier", g.o + 1, g.o + 2, w + 1, "name")
           EXCEPT !.name = "p"],
        NodeOf("JSXClosingElement", g.ee, g.total, w, "closingElement"),
        [NodeOf("JSXIdentifier", g.ee + 2, g.total - 1, Len(nodes) + 2, "name")
           EXCEPT !.name = "p"] >>

AddWrap(d, g, nodes) ==
  IF d.wrap = "none" THEN nodes
  ELSE WrapClosing(g, Len(nodes) + 1, WrapOpening(d, g, nodes))

\* nodes, followed by the nodes of the element up to its last attribute
OpeningNodes(d, g, nodes) ==
  nodes
  \o << NodeOf("JSXElement", g.eo, g.ee, g.parent, g.role),
        NodeOf("JSXOpeningElement", g.eo, g.openEnd, Len(nodes) + 1,
               "openingElement") >>
  \o AttrsNodes(d, AttrList(d), << >>, Len(nodes) + 3, Len(nodes) + 2,
                g.eo + 4)

\* the nodes of the child of the element e; c is the index of the first
\* of them
ChildNodes(d, g, e, c) ==
  CASE d.child = "self" ->
         << NodeOf("JSXElement", g.openEnd, g.closeStart, e, "children"),
            NodeOf("JSXOpeningElement", g.openEnd, g.closeStart, c,
                   "openingElement"),
            [NodeOf("JSXIdentifier", g.openEnd + 1, g.openEnd + 4, c + 1,
                    "name") EXCEPT !.name = "Box"] >>
    [] d.child = "paired" ->
         << NodeOf("JSXElement", g.openEnd, g.closeStart, e, "children"),
            NodeOf("JSXOpeningElement", g.openEnd, g.openEnd + 3, c,
                   "openingElement"),
            [NodeOf("JSXIdentifier", g.openEnd + 1, g.openEnd + 2, c + 1,
                    "name") EXCEPT !.name = "b"],
            NodeOf("JSXClosingElement", g.openEnd + 4, g.closeStart, c,
                   "closingElement"),
            [NodeOf("JSXIdentifier", g.openEnd + 6, g.openEnd + 7, c + 3,
                    "name") EXCEPT !.name = "b"],
            NodeOf("JSXText", g.openEnd + 3, g.openEnd + 4, c, "children") >>
    [] OTHER ->
         << NodeOf("JSXText", g.openEnd, g.closeStart, e, "children") >>

\* nodes, followed by the nodes after the attributes of the element e: the
\* tag name, the closing element with its name, and the child
CloseElement(d, g, e, nodes) ==
  nodes
  \o << [NodeOf("JSXIdentifier", g.eo + 1, g.eo + 4, e + 1, "name")
           EXCEPT !.name = "div"],
        NodeOf("JSXClosingElement", g.closeStart, g.ee, e, "closingElement"),
        [NodeOf("JSXIdentifier", g.closeStart + 2, g.ee - 1, Len(nodes) + 2,
                "name") EXCEPT !.name = "div"] >>
  \o ChildNodes(d, g, e, Len(nodes) + 4)

AddElement(d, g, nodes) ==
  CloseElement(d, g, Len(nodes) + 1, OpeningNodes(d, g, nodes))

ParseAt(d, g) == AddElement(d, g, AddWrap(d, g, HeadNodes(d, g)))

\* The tree the parser builds for SourceText(d): nodes in the order walk
\* visits them (a JSXOpeningElement holds its attributes before its name, a
\* JSXElement its opening element, closing element, then children).
Parse(d) == ParseAt(d, Geometry(d))

(***************************************************************************)
(* Reading the tree.  0 stands for null / undefined.                       *)
(***************************************************************************)
RECURSIVE ChildrenFrom(_, _, _, _)
ChildrenFrom(t, n, role, i) ==
  IF i > Len(t) THEN << >>
  ELSE (IF t[i].parent = n /\ t[i].role = role THEN << i >> ELSE << >>)
       \o ChildrenFrom(t, n, role, i + 1)

\* the nodes n holds under the key role, in source order
ChildrenOf(t, n, role) == ChildrenFrom(t, n, role, n + 1)

ChildOf(t, n, role) ==
  LET c == ChildrenOf(t, n, role) IN IF Len(c) = 0 THEN 0 ELSE c[1]

\* attributes.find(attr => attr.type === 'JSXAttribute' && attr.name.name === name)
RECURSIVE FindIn(_, _, _)
FindIn(t, attrs, name) ==
  IF Len(attrs) = 0 THEN 0
  ELSE IF t[attrs[1]].type = "JSXAttribute"
          /\ ChildOf(t, attrs[1], "name") # 0
          /\ t[ChildOf(t, attrs[1], "name")].name = name
       THEN attrs[1]
       ELSE FindIn(t, Tail(attrs), name)

FindAttribute(t, opening, name) ==
  FindIn(t, ChildrenOf(t, opening, "attributes"), name)

RECURSIVE IsAncestor(_, _, _)
IsAncestor(t, a, n) ==
  IF n = 0 \/ t[n].parent = 0 THEN FALSE
  ELSE t[n].parent = a \/ IsAncestor(t, a, t[n].parent)

(***************************************************************************)
(* The functions of transform-jsx-style-to-class-name.ts.                  *)
(***************************************************************************)
\* isValidIdentifier with the first character tested like the others
isValidIdentifierAnyFirst(str) ==
  /\ Len(str) >= 1
  /\ \A i \in 0..(Len(str) - 1) : CharAt(str, i) \in Lower \cup Upper \cup Digit

\* /^[a-z][a-z0-9]*$/i
isValidIdentifier(str) ==
  /\ Len(str) >= 1
  /\ CharAt(str, 0) \in Lower \cup Upper
  /\ \A i \in 1..(Len(str) - 1) : CharAt(str, i) \in Lower \cup Upper \cup Digit

\* walk calls back on every node in tree order; found is replaced by a node
\* containing the offset whenever that node lies within found
RECURSIVE FindFrom(_, _, _, _)
FindFrom(t, off, i, found) ==
  IF i > Len(t) THEN found
  ELSE IF /\ t[i].start <= off /\ off <= t[i].end
          /\ (found = 0 \/ (t[i].start >= t[found].start
                            /\ t[i].end <= t[found].end))
       THEN FindFrom(t, off, i + 1, i)
       ELSE FindFrom(t, off, i + 1, found)

findNodeAtOffset(t, off) == FindFrom(t, off, 1, 0)

\* "Move to parent" keeping the first holder met instead of the last
ParentOfFirstHolder(t, node) ==
  LET holders == {n \in 1..Len(t) : n # node /\ IsAncestor(t, n, node)}
  IN  IF holders = {} THEN 0
      ELSE CHOOSE n \in holders : \A m \in holders : n <= m

\* "Move to parent": the last node n, in tree order, other than node whose
\* subtree holds node
ParentOf(t, node) ==
  LET holders == {n \in 1..Len(t) : n # node /\ IsAncestor(t, n, node)}
  IN  IF holders = {} THEN 0
      ELSE CHOOSE n \in holders : \A m \in holders : m <= n

\* openingElement.attributes.find(... attr.name.name === 'style'), 0 when
\* there is no element
StyleAttributeOf(t, element) ==
  IF element = 0 THEN 0
  ELSE FindAttribute(t, ChildOf(t, element, "openingElement"), "style")

\* attr?.value
ValueOf(t, attr) == IF attr = 0 THEN 0 ELSE ChildOf(t, attr, "value")

\* the expression of value when value is a JSXExpressionContainer
ExpressionOf(t, value) ==
  IF value = 0 THEN 0
  ELSE IF t[value].type # "JSXExpressionContainer" THEN 0
  ELSE ChildOf(t, value, "expression")

\* the expression taken whatever its type
AnyExpression(t, expr) == expr

ObjectExpressionOrNull(t, expr) ==
  IF expr = 0 THEN 0
  ELSE IF t[expr].type = "ObjectExpression" THEN expr ELSE 0

\* the object expression the style attribute attr holds, 0 if it holds none
StyleObjectOf(t, attr) ==
  ObjectExpressionOrNull(t, ExpressionOf(t, ValueOf(t, attr)))

\* the style attribute of an element qualifies when its value is an
\* expression container holding an object expression
HasStyleObject(t, element) ==
  StyleObjectOf(t, StyleAttributeOf(t, element)) # 0

RECURSIVE ClimbToStyled(_, _)
ClimbToStyled(t, node) ==
  IF node = 0 THEN 0
  ELSE IF t[node].type = "JSXElement" /\ HasStyleObject(t, node) THEN node
  ELSE ClimbToStyled(t, ParentOf(t, node))

findJSXElementWithStyleAtPosition(t, off) ==
  ClimbToStyled(t, findNodeAtOffset(t, off))

\* what getJsxElementNameAtPosition returns: a tag name or null; "pending"
\* while it has not been called
NamePending == [status |-> "pending", name |-> ""]
NameNull == [status |-> "null", name |-> ""]
NameOf(name) == [status |-> "value", name |-> name]

\* the climb stopping only at an element that has a style object
ClimbToElementWithStyle(t, node) == ClimbToStyled(t, node)

\* get-jsx-element-name-at-position.ts: the loop that climbs from node to
\* the first JSXElement
RECURSIVE ClimbToElement(_, _)
ClimbToElement(t, node) ==
  IF node = 0 THEN 0
  ELSE IF t[node].type = "JSXElement" THEN node
  ELSE ClimbToElement(t, ParentOf(t, node))

\* jsxElement.openingElement.name.name
TagNameOf(t, element) ==
  t[ChildOf(t, ChildOf(t, element, "openingElement"), "name")].name

ResolvedName(t, element) ==
  IF element = 0 THEN NameNull ELSE NameOf(TagNameOf(t, element))

getJsxElementNameAtPosition(t, off) ==
  ResolvedName(t, ClimbToElement(t, findNodeAtOffset(t, off)))

isStaticValue(node) ==
  \/ node.type = "Literal"
  \/ (node.type = "TemplateLiteral" /\ node.nexpr = 0)

getStaticValue(node) ==
  IF node.type = "Literal" THEN ToJSString(node.value)
  ELSE IF node.type = "TemplateLiteral" /\ node.nexpr = 0 THEN node.cooked
  ELSE ""

DynamicProperty(src, prop) ==
  [start |-> prop.start, end |-> prop.end,
   text |-> Slice(src, prop.start, prop.end)]

\* ExtractStep without the test of prop.computed
ExtractStepResolvingComputed(t, src, p, acc) ==
  LET prop == t[p]
      key == t[ChildOf(t, p, "key")]
      value == t[ChildOf(t, p, "value")]
      dynamic == [acc EXCEPT !.dynamicProperties =
                    Append(@, DynamicProperty(src, prop))]
  IN  IF prop.type = "Property"
      THEN IF key.type = "Identifier" \/ (key.type = "Literal"
                                          /\ key.value.t = "string")
           THEN IF isStaticValue(value)
                THEN [acc EXCEPT !.staticStyles =
                        Append(@, [name |-> IF key.type = "Identifier"
                                            THEN key.name ELSE key.value.s,
                                   value |-> getStaticValue(value)])]
                ELSE dynamic
           ELSE dynamic
      ELSE IF prop.type = "SpreadElement" THEN dynamic
      ELSE acc

\* ExtractStep recording the span of the argument of a spread element
ExtractStepSpreadArgument(t, src, p, acc) ==
  LET prop == t[p]
      key == t[ChildOf(t, p, "key")]
      value == t[ChildOf(t, p, "value")]
      dynamic == [acc EXCEPT !.dynamicProperties =
                    Append(@, DynamicProperty(src, prop))]
  IN  IF prop.type = "Property"
      THEN IF prop.computed THEN dynamic
           ELSE IF key.type = "Identifier" \/ (key.type = "Literal"
                                               /\ key.value.t = "string")
           THEN IF isStaticValue(value)
                THEN [acc EXCEPT !.staticStyles =
                        Append(@, [name |-> IF key.type = "Identifier"
                                            THEN key.name ELSE key.value.s,
                                   value |-> getStaticValue(value)])]
                ELSE dynamic
           ELSE dynamic
      ELSE IF prop.type = "SpreadElement"
           THEN [acc EXCEPT !.dynamicProperties =
                   Append(@, DynamicProperty(src, t[ChildOf(t, p, "argument")]))]
      ELSE acc

\* ExtractStep without the branch for spread elements
ExtractStepWithoutSpread(t, src, p, acc) ==
  LET prop == t[p]
      key == t[ChildOf(t, p, "key")]
      value == t[ChildOf(t, p, "value")]
      dynamic == [acc EXCEPT !.dynamicProperties =
                    Append(@, DynamicProperty(src, prop))]
  IN  IF prop.type = "Property"
      THEN IF prop.computed THEN dynamic
           ELSE IF key.type = "Identifier" \/ (key.type = "Literal"
                                               /\ key.value.t = "string")
           THEN IF isStaticValue(value)
                THEN [acc EXCEPT !.staticStyles =
                        Append(@, [name |-> IF key.type = "Identifier"
                                            THEN key.name ELSE key.value.s,
                                   value |-> getStaticValue(value)])]
                ELSE dynamic
           ELSE dynamic
      ELSE acc

\* ExtractStep that also keeps every static entry inline
ExtractStepKeepingStatic(t, src, p, acc) ==
  [staticStyles |->
     IF /\ t[p].type = "Property"
        /\ ~t[p].computed
        /\ t[ChildOf(t, p, "key")].type = "Identifier"
        /\ isStaticValue(t[ChildOf(t, p, "value")])
     THEN Append(acc.staticStyles,
                 [name |-> t[ChildOf(t, p, "key")].name,
                  value |-> getStaticValue(t[ChildOf(t, p, "value")])])
     ELSE acc.staticStyles,
   dynamicProperties |->
     Append(acc.dynamicProperties, DynamicProperty(src, t[p]))]

\* one iteration of the loop of extractStyles over the property p of the
\* tree t; acc holds staticStyles and dynamicProperties
ExtractStep(t, src, p, acc) ==
  LET prop == t[p]
      key == t[ChildOf(t, p, "key")]
      value == t[ChildOf(t, p, "value")]
      dynamic == [acc EXCEPT !.dynamicProperties =
                    Append(@, DynamicProperty(src, prop))]
  IN  IF prop.type = "Property"
      THEN IF prop.computed THEN dynamic
           ELSE IF key.type = "Identifier" \/ (key.type = "Literal"
                                               /\ key.value.t = "string")
           THEN IF isStaticValue(value)
                THEN [acc EXCEPT !.staticStyles =
                        Append(@, [name |-> IF key.type = "Identifier"
                                            THEN key.name ELSE key.value.s,
                                   value |-> getStaticValue(value)])]
                ELSE dynamic
           ELSE dynamic
      ELSE IF prop.type = "SpreadElement" THEN dynamic
      ELSE acc

RECURSIVE ExtractFrom(_, _, _, _)
ExtractFrom(t, src, props, acc) ==
  IF Len(props) = 0 THEN acc
  ELSE ExtractFrom(t, src, Tail(props), ExtractStep(t, src, props[1], acc))

NoStyles == [staticStyles |-> << >>, dynamicProperties |-> << >>]

extractStyles(t, objectExpr, src) ==
  ExtractFrom(t, src, ChildrenOf(t, objectExpr, "properties"), NoStyles)

\* the class reference written into the class attribute
ClassNameValue(name) ==
  IF isValidIdentifier(name) THEN "styles." \o name
  ELSE "styles[\"" \o name \o "\"]"

EditOf(start, end, replacement) ==
  [start |-> start, end |-> end, replacement |-> replacement]

RECURSIVE Texts(_)
Texts(dyn) == IF Len(dyn) = 0 THEN << >> ELSE << dyn[1].text >> \o Texts(Tail(dyn))

\* RemoveStart that never takes the space before the attribute along
RemoveStartAtAttribute(src, styleStart) == styleStart

\* RemoveStart that takes the character before the attribute along whatever
\* it is
RemoveStartAnyCharacter(src, styleStart) == styleStart - 1

\* the start of the removal of the style attribute: one space before the
\* attribute is taken along
RemoveStart(src, styleStart) ==
  IF Slice(src, styleStart - 1, styleStart) = " " THEN styleStart - 1
  ELSE styleStart

\* the edit made to the class attribute that is already there
ExistingClassEdits(t, src, existing, classNameValue) ==
  LET value == ChildOf(t, existing, "value")
      existingValue == Slice(src, t[value].start, t[value].end)
  IN  IF value = 0 THEN << >>
      ELSE IF StartsWith(existingValue, "{") /\ EndsWith(existingValue, "}")
      THEN << EditOf(t[value].start, t[value].end,
                     "{" \o BT \o "${" \o Slice(existingValue, 1, -1)
                     \o "} ${" \o classNameValue \o "}" \o BT \o "}") >>
      ELSE << EditOf(t[value].start, t[value].end,
                     "{" \o classNameValue \o "}") >>

\* the edit list, in the order in which the edits are pushed
BuildEditList(t, src, style, expr, dyn, classAttr, name) ==
  LET opening == t[style].parent
      classNameValue == ClassNameValue(name)
      existing == FindAttribute(t, opening, classAttr)
      dynamicPropsText == Join(Texts(dyn), ", ")
      removeStart == RemoveStart(src, t[style].start)
  IN  IF existing # 0
      THEN ExistingClassEdits(t, src, existing, classNameValue)
           \o (IF Len(dyn) > 0
               THEN << EditOf(t[expr].start, t[expr].end,
                              "{ " \o dynamicPropsText \o " }") >>
               ELSE << EditOf(removeStart, t[style].end, "") >>)
      ELSE IF Len(dyn) > 0
           THEN << EditOf(removeStart, t[style].end,
                          " " \o classAttr \o "={" \o classNameValue
                          \o "} style={{ " \o dynamicPropsText \o " }}") >>
           ELSE << EditOf(removeStart, t[style].end,
                          " " \o classAttr \o "={" \o classNameValue \o "}") >>

\* the edits sorted the other way, ascending by start
RECURSIVE InsertEditAscending(_, _)
InsertEditAscending(sorted, e) ==
  IF Len(sorted) = 0 THEN << e >>
  ELSE IF sorted[1].start <= e.start
       THEN << sorted[1] >> \o InsertEditAscending(Tail(sorted), e)
       ELSE << e >> \o sorted

RECURSIVE SortEditsAscending(_)
SortEditsAscending(es) ==
  IF Len(es) = 0 THEN << >>
  ELSE InsertEditAscending(SortEditsAscending(SubSeq(es, 1, Len(es) - 1)),
                           es[Len(es)])

\* edits.sort((a, b) => b.start - a.start): stable, descending by start
RECURSIVE InsertEdit(_, _)
InsertEdit(sorted, e) ==
  IF Len(sorted) = 0 THEN << e >>
  ELSE IF sorted[1].start >= e.start
       THEN << sorted[1] >> \o InsertEdit(Tail(sorted), e)
       ELSE << e >> \o sorted

RECURSIVE SortEdits(_)
SortEdits(es) ==
  IF Len(es) = 0 THEN << >>
  ELSE InsertEdit(SortEdits(SubSeq(es, 1, Len(es) - 1)), es[Len(es)])

\* the edit applied with the text after it dropped
ApplyOneTruncating(code, edit) ==
  Slice(code, 0, edit.start) \o edit.replacement

ApplyOne(code, edit) ==
  Slice(code, 0, edit.start) \o edit.replacement \o Slice(code, edit.end, Len(code))

(***************************************************************************)
(* The class name functions of style-helpers.                              *)
(***************************************************************************)
\* Math.random() * 1000 floored lies in 0..RandomRange - 1
RandomRange == 1000
\* maxRetries: number = 100
DefaultMaxRetries == 100

\* the decimal text of a natural number
RECURSIVE NaturalText(_)
NaturalText(n) ==
  IF n < 10 THEN DigitChar(n) ELSE NaturalText(n \div 10) \o DigitChar(n % 10)

\* generateRandomClassName with randomNum the number drawn; tagName is ""
\* when it is not given
generateRandomClassName(tagName, randomNum) ==
  (IF tagName # "" THEN tagName ELSE "element") \o "-" \o NaturalText(randomNum)

\* the characters \s matches
RegexSpace == {" ", "\n", "\t", "\r", "\f"}

\* the offset after the white space that begins at offset i of s
RECURSIVE SkipSpace(_, _)
SkipSpace(s, i) ==
  IF i < Len(s) /\ CharAt(s, i) \in RegexSpace THEN SkipSpace(s, i + 1) ELSE i

\* the pattern \.<className>\s*\{ matches at offset i of the text (for a
\* className of letters, digits, hyphens and underscores, which the pattern
\* takes literally)
MatchesClassAt(cssText, name, i) ==
  /\ Slice(cssText, i, i + 1 + Len(name)) = "." \o name
  /\ CharAt(cssText, SkipSpace(cssText, i + 1 + Len(name))) = "{"

\* the test looking for the dot and the name only
classExistsInCSSByPrefix(cssText, name) == Includes(cssText, "." \o name)

classExistsInCSS(cssText, name) ==
  \E i \in 0..(Len(cssText) - 1) : MatchesClassAt(cssText, name, i)

\* the loop never counted as exhausted
NeverExhausted(n, limit) == FALSE

\* attempts >= maxRetries
Exhausted(n, limit) == n >= limit

\* a loop that goes on for as long as the name exists
LoopWhileExists(cssText, name, n, limit) == classExistsInCSS(cssText, name)

\* the condition of the while loop of generateUniqueClassName
LoopContinues(cssText, name, n, limit) ==
  classExistsInCSS(cssText, name) /\ n < limit

(***************************************************************************)
(* The functions the extract command uses: stylesToCSS of style-helpers    *)
(* and classExists of css-parser.                                          *)
(***************************************************************************)
\* const maxAttempts = 10
MaxAttempts == 10

UpperLetters == "ABCDEFGHIJKLMNOPQRSTUVWXYZ"
LowerLetters == "abcdefghijklmnopqrstuvwxyz"

\* String.prototype.toLowerCase, one character
LowerCaseOf(c) ==
  IF c \in Upper THEN CharAt(LowerLetters, IndexFrom(UpperLetters, c, 0))
  ELSE c

\* str.replace(/([a-z0-9])([A-Z])/g, '$1-$2').toLowerCase(), from offset i
RECURSIVE KebabFrom(_, _)
KebabFrom(str, i) ==
  IF i >= Len(str) THEN ""
  ELSE IF CharAt(str, i) \in Lower \cup Digit /\ CharAt(str, i + 1) \in Upper
       THEN CharAt(str, i) \o "-" \o LowerCaseOf(CharAt(str, i + 1))
            \o KebabFrom(str, i + 2)
       ELSE LowerCaseOf(CharAt(str, i)) \o KebabFrom(str, i + 1)

camelToKebab(str) == KebabFrom(str, 0)

\* the place of name among the entries, 0 if it is not there
PlaceOf(entries, name) ==
  IF \E k \in 1..Len(entries) : entries[k].name = name
  THEN CHOOSE k \in 1..Len(entries) : entries[k].name = name
  ELSE 0

\* Object.fromEntries(extractedStyles.map(...)), as the entries of the
\* object in order: a name met again keeps its place and takes the new value
RECURSIVE FromEntries(_, _)
FromEntries(styles, acc) ==
  IF Len(styles) = 0 THEN acc
  ELSE FromEntries(Tail(styles),
         IF PlaceOf(acc, styles[1].name) = 0 THEN Append(acc, styles[1])
         ELSE [acc EXCEPT ![PlaceOf(acc, styles[1].name)] = styles[1]])

RECURSIVE CssLines(_, _)
CssLines(entries, propertyNaming) ==
  IF Len(entries) = 0 THEN << >>
  ELSE << "  " \o (IF propertyNaming = "kebab-case"
                   THEN camelToKebab(entries[1].name) ELSE entries[1].name)
          \o ": " \o entries[1].value \o ";" >>
       \o CssLines(Tail(entries), propertyNaming)

stylesToCSS(entries, propertyNaming) ==
  Join(CssLines(entries, propertyNaming), "\n")

\* the text of the rule the command appends
NewRule(name, styles, propertyNaming) ==
  "." \o name \o " {\n" \o stylesToCSS(FromEntries(styles, << >>), propertyNaming)
  \o "\n}\n"

\* cssContent with a line end added when it is not empty and lacks one
EndedWithNewline(cssText) ==
  IF cssText # "" /\ ~EndsWith(cssText, "\n") THEN cssText \o "\n" ELSE cssText

\* the import written before the code whatever the document holds
WithImportAlways(documentText, code, fileBaseName) ==
  ImportStatement(fileBaseName) \o code

WithImport(documentText, code, fileBaseName) ==
  IF ~Includes(documentText, ModulePath(fileBaseName))
  THEN ImportStatement(fileBaseName) \o code ELSE code

\* postcss.parse: every opening brace has its closing brace after it
RECURSIVE BracesPaired(_, _)
BracesPaired(cssText, i) ==
  IF IndexFrom(cssText, "{", i) < 0 THEN IndexFrom(cssText, "}", i) < 0
  ELSE /\ IndexFrom(cssText, "}", i) > IndexFrom(cssText, "{", i)
       /\ BracesPaired(cssText, IndexFrom(cssText, "}", i) + 1)

\* ast.walkRules: the selectors of the rules of the text, from offset i
RECURSIVE SelectorsFrom(_, _)
SelectorsFrom(cssText, i) ==
  IF IndexFrom(cssText, "{", i) < 0 THEN {}
  ELSE {Slice(cssText, i, IndexFrom(cssText, "{", i))}
       \cup SelectorsFrom(cssText,
              IndexFrom(cssText, "}", IndexFrom(cssText, "{", i)) + 1)

ClassNameChars == Lower \cup Upper \cup Digit \cup {"-", "_"}

\* the offset after the class name characters that begin at offset i of s
RECURSIVE NameEnd(_, _)
NameEnd(s, i) ==
  IF i < Len(s) /\ CharAt(s, i) \in ClassNameChars THEN NameEnd(s, i + 1) ELSE i

\* selectors.walkClasses: the class names of a selector
ClassesOf(selector) ==
  {Slice(selector, i + 1, NameEnd(selector, i + 1)) :
     i \in {j \in 0..(Len(selector) - 1) : CharAt(selector, j) = "."}}

\* parseCSSContent(cssContent).some(cls => cls.name === className); a text
\* that does not parse has no classes
classExists(cssText, name) ==
  /\ BracesPaired(cssText, 0)
  /\ \E selector \in SelectorsFrom(cssText, 0) : name \in ClassesOf(selector)

(***************************************************************************)
(* The inputs of a run: a document and the arguments of the command.       *)
(***************************************************************************)
Lists(S, k) == UNION {[1..n -> S] : n \in 0..k}

NameAlphabet == {"a", "Z", "0", "-", "_"}

RECURSIVE Names(_)
Names(k) ==
  IF k = 0 THEN {""}
  ELSE Names(k - 1) \cup {n \o c : n \in Names(k - 1), c \in NameAlphabet}

Document(props, style, cls, clsFirst, layout, prefix) ==
  [props |-> props, style |-> style, cls |-> cls, clsFirst |-> clsFirst,
   layout |-> layout, prefix |-> prefix, wrap |-> "none", child |-> "text"]

\* the document d written inside an element <p> and holding a child
Nested(d, wrap, child) == [d EXCEPT !.wrap = wrap, !.child = child]

\* the offset of the cursor: at the start of the document, in the tag name
\* of the element written around the element, at the start of the element,
\* in its tag name, at the end of its opening tag, or inside its child
CursorOffset(d, cursor) ==
  CASE cursor = "start" -> 0
    [] cursor = "wrapName" -> Len(d.prefix) + 1
    [] cursor = "elementStart" -> Len(d.prefix) + Len(WrapOpen(d))
    [] cursor = "name" -> Len(d.prefix) + Len(WrapOpen(d)) + 2
    [] cursor = "child" ->
         Len(d.prefix) + Len(WrapOpen(d)) + Len(OpeningText(d)) + 2
    [] OTHER -> Len(d.prefix) + Len(WrapOpen(d)) + Len(OpeningText(d))

Run(d, cursor, name, classAttr) ==
  [doc |-> d, offset |-> CursorOffset(d, cursor), className |-> name,
   classAttribute |-> classAttr]

\* every entry form, in a plain element
WideRuns ==
  {Run(Document(ps, "object", "none", FALSE, "inline", ""), "name", "box",
       "className") : ps \in Lists(1..Len(Catalogue), MaxWideProps)}

\* the compact entry forms, with every shape of a class attribute already
\* on the element, before or after the style attribute, in both layouts
CompactRuns ==
  {Run(Document(ps, "object", f[1], f[2], f[3], ""), "name", "box", f[4]) :
     ps \in Lists(Compact, MaxProps),
     f \in ({"string", "expr", "bare"} \X BOOLEAN \X {"inline", "multi"}
              \X {"class"})
           \cup ({"none"} \X {FALSE} \X {"inline", "multi"}
                   \X {"class", "className"})
           \cup ({"string"} \X {TRUE} \X {"inline"} \X {"className"})}

\* every class name over NameAlphabet
NameRuns ==
  {Run(Document(ps, "object", cls, FALSE, "inline", ""), "name", n, "class") :
     ps \in {<<1>>, <<1, 3>>}, cls \in {"none", "expr"},
     n \in Names(MaxNameLen) \cup {"myClass", "my-class", "box1"}}

\* every shape of the style attribute, the cursor at the start of the
\* document, in the tag name and at the end of the opening tag
ShapeRuns ==
  {Run(Document(ps, st, cls, FALSE, "inline", pre), cur, "box", "class") :
     ps \in {<< >>, <<1>>}, st \in {"object", "ident", "string", "bare", "none"},
     cls \in {"none", "string"}, pre \in {"", "a;\n"},
     cur \in {"start", "name", "tagEnd"}}

Runs == WideRuns \cup CompactRuns \cup NameRuns \cup ShapeRuns

\* the element inside an element <p> (which has an object style, a style
\* that is no object, or none) and holding a text, a self-closing component
\* or an element as its child, with the cursor at every place
NestedRuns ==
  {Run(Nested(Document(ps, f[1], "none", FALSE, "inline", f[2]), f[3], f[4]),
       cur, "box", "className") :
     ps \in {<<1>>, <<1, 3>>, <<3>>},
     f \in {"object", "ident", "bare", "none"} \X {"", "a;\n"}
            \X {"none", "plain", "object", "ident"}
            \X {"text", "self", "paired"},
     cur \in {"start", "wrapName", "elementStart", "name", "tagEnd", "child"}}

(***************************************************************************)
(* The inputs of the class name functions: the text of a CSS module, a tag *)
(* name and a number of retries.                                           *)
(***************************************************************************)
MaxRandom == 2
MaxRetriesBound == 2
MaxCssRules == 2

\* the numbers a draw can give: the least ones and the greatest
RandomNumbers == (0..MaxRandom) \cup {RandomRange - 1}

CssRule(selector, gap, body) ==
  [selector |-> selector, gap |-> gap, body |-> body]

RuleText(r) == r.selector \o r.gap \o "{" \o r.body \o "}"

RECURSIVE RuleTexts(_)
RuleTexts(rules) ==
  IF Len(rules) = 0 THEN << >>
  ELSE << RuleText(rules[1]) >> \o RuleTexts(Tail(rules))

\* the text of a CSS module holding the rules, sep between them
CssText(rules, sep) == Join(RuleTexts(rules), sep)

\* the rules of the classes base-n for the numbers n of the set taken
RECURSIVE NumberedRules(_, _, _)
NumberedRules(base, taken, n) ==
  IF n >= RandomRange THEN << >>
  ELSE (IF n \in taken
        THEN << CssRule("." \o generateRandomClassName(base, n), " ",
                        " color: red; ") >>
        ELSE << >>)
       \o NumberedRules(base, taken,
                        IF n < MaxRandom THEN n + 1
                        ELSE IF n = MaxRandom THEN RandomRange - 1
                        ELSE RandomRange)

TagNames == {"t", "div", ""}

RetryLimits == (0..MaxRetriesBound) \cup {DefaultMaxRetries}

GenerateInput(rules, sep, tag, limit) ==
  [rules |-> rules, sep |-> sep, tagName |-> tag, maxRetries |-> limit]

\* a module where any of the names that can be drawn is taken
TakenInputs ==
  {GenerateInput(NumberedRules(base, taken, 0), "\n", tag, limit) :
     base \in {"t", ""}, taken \in SUBSET RandomNumbers, tag \in TagNames,
     limit \in RetryLimits}

Selectors ==
  {".button-123", ".div-456", ".t-1", ".t-10", "span.t-1", ".card .t-1",
   ".t-1:hover"}

SelectorRules ==
  {CssRule(sel, gap, "color:red;") : sel \in Selectors, gap \in {"", " \n"}}

\* a module written by hand, with every spacing
WrittenInputs ==
  {GenerateInput(rules, sep, "t", 1) :
     rules \in Lists(SelectorRules, MaxCssRules), sep \in {"", "\n"}}

GenerateInputs == TakenInputs \cup WrittenInputs

\* the names classExistsInCSS is asked about
ProbeNames ==
  {"button-123", "button", "123", "div-456", "span-789", "t-1", "t", "1"}

\* the document the transform is given while the class name functions run
IdleRun == Run(Document(<<1>>, "object", "none", FALSE, "inline", ""), "name",
               "box", "class")

(***************************************************************************)
(* The inputs of the extract command: a document with the cursor, the CSS  *)
(* module file beside it, and the configuration.                           *)
(***************************************************************************)
\* the file on disk: fs.existsSync and fs.readFileSync
FileState(exists, text) == [exists |-> exists, text |-> text]

AbsentFile == [exists |-> FALSE, rules |-> << >>, text |-> ""]
FileOf(rules, end) ==
  [exists |-> TRUE, rules |-> rules, text |-> CssText(rules, "\n") \o end]

\* no module file, an empty one, one with a rule and no final line end, one
\* where a name is used with a pseudo-class only, one where a name or every
\* name that can be drawn for a div is taken
CommandFiles ==
  {AbsentFile, FileOf(<< >>, ""),
   FileOf(<< CssRule(".box", " ", " color: red; ") >>, ""),
   FileOf(<< CssRule(".div-0:hover", " ", " color: red; ") >>, "\n"),
   FileOf(NumberedRules("div", {0}, 0), "\n"),
   FileOf(NumberedRules("div", RandomNumbers, 0), "\n")}

\* the style of the element: static entries, static and dynamic ones, only
\* dynamic ones, no object, no style; the cursor in the tag name or before
\* the element
CommandDocuments ==
  {Run(Document(f[1], f[2], "none", FALSE, "inline", f[3]), f[4], "", "class") :
     f \in ({<<1>>, <<1, 3>>, <<3>>, <<3, 4>>, <<7, 1>>} \X {"object"} \X {""}
              \X {"name"})
           \cup ({<<1>>} \X {"ident", "none"} \X {""} \X {"name"})
           \cup ({<<1>>} \X {"object"} \X {"a;\n"} \X {"start", "name"})}

\* what the user types in the input box: a name; "" for an empty input
TypedNames == {"box", "card"}

\* the documents and files of a session of several commands: the document
\* names the module path already, in an import of the user's, or not
SessionDocuments ==
  {Run(Document(ps, "object", "none", FALSE, "inline", pre), "name", "",
       "class") :
     ps \in {<<1>>, <<1, 3>>}, pre \in {"", UserImport}}

SessionFiles ==
  {AbsentFile, FileOf(<< CssRule(".box", " ", " color: red; ") >>, "")}

\* the commands of a session
MaxCommands == 2

\* a rule written into the CSS module from outside the command
ExternalRule == ".ext { }\n"

(***************************************************************************)
(* State.                                                                  *)
(***************************************************************************)
VARIABLES
  doc,                \* the document as written (the parser's input)
  ast,                \* input.ast
  sourceCode,         \* input.sourceCode
  offset,             \* input.offset
  className,          \* input.className
  classAttribute,     \* input.classAttribute
  pc,                 \* position in transformJsxStyleToClassName
  styleAttr,          \* the style attribute of the element found
  styleExpr,          \* its object expression
  remaining,          \* properties extractStyles has still to visit
  staticStyles,
  dynamicProperties,
  edits,
  transformedCode,
  result,             \* the value returned
  elementNameAt,      \* the value getJsxElementNameAtPosition returned
  cssRules,           \* the CSS module as written
  cssContent,         \* its text
  tagName,            \* the tag name generateUniqueClassName is given
  maxRetries,
  attempts,
  candidate,          \* className in generateUniqueClassName
  gen,                \* position in generateUniqueClassName
  probe,              \* the value a call of classExistsInCSS returned
  cmd,                \* position in extractStylesToModule
  documentText,       \* the text of the document in the editor
  cssFile,            \* the CSS module file beside the document
  promptAttempts,     \* attempts in extractStylesToModule
  cssPropertyNaming   \* the configured naming of CSS properties

input == <<doc, ast, sourceCode, offset, className, classAttribute>>
\* the state outside transformJsxStyleToClassName
generator ==
  <<cssRules, cssContent, tagName, maxRetries, attempts, candidate, gen, probe>>
command == <<cmd, documentText, cssFile, promptAttempts, cssPropertyNaming>>
outside == <<elementNameAt, generator, command>>
vars == <<doc, ast, sourceCode, offset, className, classAttribute, pc,
          styleAttr, styleExpr, remaining, staticStyles, dynamicProperties,
          edits, transformedCode, result, outside>>

\* what a call of classExistsInCSS returned for a name
ProbeIdle == [status |-> "idle", name |-> "", exists |-> FALSE]
ProbeResult(name, exists) ==
  [status |-> "value", name |-> name, exists |-> exists]

Pending ==
  [status |-> "pending", transformedCode |-> "", extractedStyles |-> << >>,
   elementName |-> "", className |-> ""]
Null == [Pending EXCEPT !.status = "null"]
Result(code, styles, element, name) ==
  [status |-> "value", transformedCode |-> code, extractedStyles |-> styles,
   elementName |-> element, className |-> name]

\* a call of transformJsxStyleToClassName on one of the runs of R begins
TransformStart(R) ==
  /\ \E r \in R :
       /\ doc = r.doc
       /\ ast = Parse(r.doc)
       /\ sourceCode = SourceText(r.doc)
       /\ offset = r.offset
       /\ className = r.className
       /\ classAttribute = r.classAttribute
  /\ pc = "locate"
  /\ styleAttr = 0
  /\ styleExpr = 0
  /\ remaining = << >>
  /\ staticStyles = << >>
  /\ dynamicProperties = << >>
  /\ edits = << >>
  /\ transformedCode = ""
  /\ result = Pending

\* no command runs
CommandIdle ==
  /\ cmd = "idle"
  /\ documentText = ""
  /\ cssFile = FileState(FALSE, "")
  /\ promptAttempts = 0
  /\ cssPropertyNaming = "kebab-case"

\* nothing outside the transform has run
OutsideIdle ==
  /\ elementNameAt = NamePending
  /\ cssRules = << >>
  /\ cssContent = ""
  /\ tagName = ""
  /\ maxRetries = 0
  /\ attempts = 0
  /\ candidate = ""
  /\ gen = "idle"
  /\ probe = ProbeIdle
  /\ CommandIdle

Init == TransformStart(Runs) /\ OutsideIdle

\* the object expression of the style attribute of the element at the
\* cursor, 0 where the code returns null (lines 273-294)
Located ==
  StyleObjectOf(ast, StyleAttributeOf(ast,
                  findJSXElementWithStyleAtPosition(ast, offset)))

ElementName ==
  ast[ChildOf(ast, ast[styleAttr].parent, "name")].name

\* no element with a style object at the cursor: return null
LocateNull ==
  /\ pc = "locate"
  /\ Located = 0
  /\ pc' = "done"
  /\ result' = Null
  /\ UNCHANGED <<input, outside, styleAttr, styleExpr, remaining, staticStyles,
                 dynamicProperties, edits, transformedCode>>

LocateFound ==
  /\ pc = "locate"
  /\ styleAttr' = StyleAttributeOf(ast,
                    findJSXElementWithStyleAtPosition(ast, offset))
  /\ styleExpr' = StyleObjectOf(ast, styleAttr')
  /\ styleExpr' # 0
  /\ remaining' = ChildrenOf(ast, styleExpr', "properties")
  /\ pc' = "extract"
  /\ UNCHANGED <<input, outside, staticStyles, dynamicProperties, edits,
                 transformedCode, result>>

\* one iteration of the loop of extractStyles
ExtractProperty ==
  /\ pc = "extract"
  /\ remaining # << >>
  /\ LET acc == ExtractStep(ast, sourceCode, Head(remaining),
                            [staticStyles |-> staticStyles,
                             dynamicProperties |-> dynamicProperties])
     IN  /\ staticStyles' = acc.staticStyles
         /\ dynamicProperties' = acc.dynamicProperties
  /\ remaining' = Tail(remaining)
  /\ UNCHANGED <<input, outside, pc, styleAttr, styleExpr, edits, transformedCode,
                 result>>

\* no static styles: the result carries the source unchanged
ReturnUnchanged ==
  /\ pc = "extract"
  /\ remaining = << >>
  /\ staticStyles = << >>
  /\ pc' = "done"
  /\ result' = Result(sourceCode, << >>, ElementName, className)
  /\ UNCHANGED <<input, outside, styleAttr, styleExpr, remaining, staticStyles,
                 dynamicProperties, edits, transformedCode>>

\* the edits are built and sorted, last edit of the text first
BuildEdits ==
  /\ pc = "extract"
  /\ remaining = << >>
  /\ staticStyles # << >>
  /\ transformedCode' = sourceCode
  /\ edits' = SortEdits(BuildEditList(ast, sourceCode, styleAttr, styleExpr,
                                      dynamicProperties, classAttribute,
                                      className))
  /\ pc' = "apply"
  /\ UNCHANGED <<input, outside, styleAttr, styleExpr, remaining, staticStyles,
                 dynamicProperties, result>>

ApplyEdit ==
  /\ pc = "apply"
  /\ edits # << >>
  /\ transformedCode' = ApplyOne(transformedCode, Head(edits))
  /\ edits' = Tail(edits)
  /\ UNCHANGED <<input, outside, pc, styleAttr, styleExpr, remaining, staticStyles,
                 dynamicProperties, result>>

ReturnTransformed ==
  /\ pc = "apply"
  /\ edits = << >>
  /\ pc' = "done"
  /\ result' = Result(transformedCode, staticStyles, ElementName, className)
  /\ UNCHANGED <<input, outside, styleAttr, styleExpr, remaining, staticStyles,
                 dynamicProperties, edits, transformedCode>>

Next ==
  \/ LocateNull
  \/ LocateFound
  \/ ExtractProperty
  \/ ReturnUnchanged
  \/ BuildEdits
  \/ ApplyEdit
  \/ ReturnTransformed

Spec == Init /\ [][Next]_vars

(***************************************************************************)
(* The transform applied to its own output.  The text returned is parsed   *)
(* again: WrittenDocument describes it, attribute by attribute.            *)
(***************************************************************************)
\* the entries of the style object whose texts were kept inline
RECURSIVE KeptEntries(_)
KeptEntries(dyn) ==
  IF Len(dyn) = 0 THEN << >>
  ELSE << CHOOSE i \in 1..Len(Catalogue) : Catalogue[i].text = dyn[1].text >>
       \o KeptEntries(Tail(dyn))

\* the style attribute the rewrite leaves: { a, b } around the entries kept
ResidualStyle(dyn) ==
  [props |-> KeptEntries(dyn),
   style |-> IF Len(dyn) = 0 THEN "none" ELSE "object", cls |-> "none",
   clsFirst |-> FALSE, layout |-> "inline", prefix |-> "", wrap |-> "none",
   child |-> "text"]

\* the white space before the style attribute that its removal leaves
KeptSpace(a) == IF a.sep = " " THEN "" ELSE a.sep

\* the attribute named classAttribute after its value was rewritten
RewrittenClass(a, ref) ==
  CASE a.shape = "string" ->
         Attr("class", a.sep, a.name, "member", a.name \o "={" \o ref \o "}")
    [] a.shape = "expr" ->
         Attr("class", a.sep, a.name, "template1",
              a.name \o "={" \o BT \o "${cx} ${" \o ref \o "}" \o BT \o "}")
    [] OTHER -> a

\* the attributes of the output for the attributes attrs of the source;
\* carry is the white space a removed style attribute left before them
RECURSIVE WrittenAttrs(_, _, _, _, _, _)
WrittenAttrs(attrs, carry, existing, r, classAttr, ref) ==
  IF Len(attrs) = 0 THEN << >>
  ELSE IF attrs[1].kind = "style"
  THEN IF existing
       THEN IF r.style = "none"
            THEN WrittenAttrs(Tail(attrs), KeptSpace(attrs[1]), existing, r,
                              classAttr, ref)
            ELSE << Attr("style", attrs[1].sep, "style", "object",
                         StyleAttrText(r)) >>
                 \o WrittenAttrs(Tail(attrs), "", existing, r, classAttr, ref)
       ELSE << Attr("class", KeptSpace(attrs[1]) \o " ", classAttr, "member",
                    classAttr \o "={" \o ref \o "}") >>
            \o (IF r.style = "none" THEN << >>
                ELSE << Attr("style", " ", "style", "object",
                             StyleAttrText(r)) >>)
            \o WrittenAttrs(Tail(attrs), "", existing, r, classAttr, ref)
  ELSE << [(IF attrs[1].name = classAttr THEN RewrittenClass(attrs[1], ref)
            ELSE attrs[1]) EXCEPT !.sep = carry \o attrs[1].sep] >>
       \o WrittenAttrs(Tail(attrs), "", existing, r, classAttr, ref)

\* the white space left before the end of the opening tag
WrittenTrail(attrs, existing, r) ==
  IF /\ Len(attrs) > 0
     /\ attrs[Len(attrs)].kind = "style"
     /\ existing
     /\ r.style = "none"
  THEN KeptSpace(attrs[Len(attrs)]) ELSE ""

\* the document the text returned is, when styles were extracted from d
WrittenDocument(d, existing, r, classAttr, ref) ==
  [props |-> r.props, style |-> r.style, cls |-> "written",
   clsFirst |-> FALSE, layout |-> "inline", prefix |-> d.prefix,
   wrap |-> d.wrap, child |-> d.child,
   attrs |-> WrittenAttrs(AttrList(d), "", existing, r, classAttr, ref),
   trail |-> WrittenTrail(AttrList(d), existing, r)]

\* the transform is called again on the text it returned, the cursor at
\* the same place of the same element
Reapply ==
  /\ pc = "done"
  /\ result.status = "value"
  /\ doc.cls # "written"
  /\ doc' = IF Len(result.extractedStyles) = 0 THEN doc
            ELSE WrittenDocument(doc,
                   FindAttribute(ast, ast[styleAttr].parent, classAttribute) # 0,
                   ResidualStyle(dynamicProperties), classAttribute,
                   ClassNameValue(className))
  /\ ast' = Parse(doc')
  /\ sourceCode' = result.transformedCode
  /\ offset' = IF offset = Geometry(doc).openEnd THEN Geometry(doc').openEnd
               ELSE offset
  /\ pc' = "locate"
  /\ styleAttr' = 0
  /\ styleExpr' = 0
  /\ remaining' = << >>
  /\ staticStyles' = << >>
  /\ dynamicProperties' = << >>
  /\ edits' = << >>
  /\ transformedCode' = ""
  /\ result' = Pending
  /\ UNCHANGED <<className, classAttribute, outside>>

NextTwice == Next \/ Reapply

SpecTwice == Init /\ [][NextTwice]_vars

\* the variables of a call of transformJsxStyleToClassName
transform ==
  <<input, pc, styleAttr, styleExpr, remaining, staticStyles,
    dynamicProperties, edits, transformedCode, result>>

\* a call of getJsxElementNameAtPosition(ast, offset)
GetElementName ==
  /\ elementNameAt = NamePending
  /\ elementNameAt' = getJsxElementNameAtPosition(ast, offset)
  /\ UNCHANGED <<transform, generator, command>>

\* the two resolvers on nested documents
InitNested == TransformStart(NestedRuns) /\ OutsideIdle

NextNested == Next \/ GetElementName

SpecNested == InitNested /\ [][NextNested]_vars

(***************************************************************************)
(* generateUniqueClassName and classExistsInCSS.                           *)
(***************************************************************************)
\* a call of generateUniqueClassName on one of the inputs begins
GenerateStart(I) ==
  /\ \E in \in I :
       /\ cssRules = in.rules
       /\ cssContent = CssText(in.rules, in.sep)
       /\ tagName = in.tagName
       /\ maxRetries = in.maxRetries
  /\ attempts = 0
  /\ candidate = ""
  /\ gen = "start"
  /\ probe = ProbeIdle

\* let className = generateRandomClassName(tagName)
FirstCandidate ==
  /\ gen = "start"
  /\ probe = ProbeIdle
  /\ \E randomNum \in RandomNumbers :
       candidate' = generateRandomClassName(tagName, randomNum)
  /\ gen' = "loop"
  /\ UNCHANGED <<transform, elementNameAt, command, cssRules, cssContent, tagName,
                 maxRetries, attempts, probe>>

\* the body of the while loop
Retry ==
  /\ gen = "loop"
  /\ LoopContinues(cssContent, candidate, attempts, maxRetries)
  /\ \E randomNum \in RandomNumbers :
       candidate' = generateRandomClassName(tagName, randomNum)
  /\ attempts' = attempts + 1
  /\ UNCHANGED <<transform, elementNameAt, command, cssRules, cssContent, tagName,
                 maxRetries, gen, probe>>

\* throw new Error('Max retries generating unique class name')
ThrowMaxRetries ==
  /\ gen = "loop"
  /\ ~LoopContinues(cssContent, candidate, attempts, maxRetries)
  /\ Exhausted(attempts, maxRetries)
  /\ gen' = "thrown"
  /\ UNCHANGED <<transform, elementNameAt, command, cssRules, cssContent, tagName,
                 maxRetries, attempts, candidate, probe>>

\* return className
ReturnClassName ==
  /\ gen = "loop"
  /\ ~LoopContinues(cssContent, candidate, attempts, maxRetries)
  /\ ~Exhausted(attempts, maxRetries)
  /\ gen' = "returned"
  /\ UNCHANGED <<transform, elementNameAt, command, cssRules, cssContent, tagName,
                 maxRetries, attempts, candidate, probe>>

\* a call of classExistsInCSS(cssContent, name), instead of one of
\* generateUniqueClassName
ClassExistsCall ==
  /\ gen = "start"
  /\ probe = ProbeIdle
  /\ \E name \in ProbeNames :
       probe' = ProbeResult(name, classExistsInCSS(cssContent, name))
  /\ UNCHANGED <<transform, elementNameAt, command, cssRules, cssContent, tagName,
                 maxRetries, attempts, candidate, gen>>

InitGenerate ==
  /\ TransformStart({IdleRun})
  /\ elementNameAt = NamePending
  /\ CommandIdle
  /\ GenerateStart(GenerateInputs)

NextGenerate ==
  \/ FirstCandidate
  \/ Retry
  \/ ThrowMaxRetries
  \/ ReturnClassName
  \/ ClassExistsCall

SpecGenerate == InitGenerate /\ [][NextGenerate]_vars

\* the call runs to its end: a step of the function that can be taken is
\* taken
GenerateStep == FirstCandidate \/ Retry \/ ThrowMaxRetries \/ ReturnClassName

SpecGenerateFair ==
  InitGenerate /\ [][NextGenerate]_vars /\ WF_vars(GenerateStep)

(***************************************************************************)
(* The extract command, extractStylesToModule of index.ts.                 *)
(***************************************************************************)
CommandInit(D, F) ==
  /\ \E r \in D :
       /\ doc = r.doc
       /\ ast = Parse(r.doc)
       /\ sourceCode = SourceText(r.doc)
       /\ documentText = SourceText(r.doc)
       /\ offset = r.offset
       /\ classAttribute = r.classAttribute
  /\ className = ""
  /\ pc = "idle"
  /\ styleAttr = 0
  /\ styleExpr = 0
  /\ remaining = << >>
  /\ staticStyles = << >>
  /\ dynamicProperties = << >>
  /\ edits = << >>
  /\ transformedCode = ""
  /\ result = Pending
  /\ elementNameAt = NamePending
  /\ \E f \in F :
       /\ cssFile = FileState(f.exists, f.text)
       /\ cssRules = f.rules
  /\ cssContent = ""
  /\ tagName = ""
  /\ maxRetries = 0
  /\ attempts = 0
  /\ candidate = ""
  /\ gen = "idle"
  /\ probe = ProbeIdle
  /\ cmd = "start"
  /\ promptAttempts = 0
  /\ cssPropertyNaming \in {"kebab-case", "camelCase"}

InitCommand == CommandInit(CommandDocuments, CommandFiles)

\* window.activeTextEditor is undefined: 'No active editor'
NoActiveEditor ==
  /\ cmd = "start"
  /\ cmd' = "noEditor"
  /\ UNCHANGED <<transform, elementNameAt, generator, documentText, cssFile,
                 promptAttempts, cssPropertyNaming>>

\* NoStyleFound that leaves a rule in the CSS module all the same
NoStyleFoundWriting ==
  /\ cmd = "transforming"
  /\ pc = "done"
  /\ result = Null
  /\ cmd' = "noStyle"
  /\ cssFile' = FileState(TRUE, cssContent \o "." \o className \o " {\n\n}\n")
  /\ UNCHANGED <<transform, elementNameAt, generator, documentText,
                 promptAttempts, cssPropertyNaming>>

\* from the start of the command to the first prompt: the CSS module is
\* read and the element at the cursor is named
CommandStart ==
  /\ cmd = "start"
  /\ cssContent' = IF cssFile.exists THEN cssFile.text ELSE ""
  /\ elementNameAt' = getJsxElementNameAtPosition(ast, offset)
  /\ cmd' = IF elementNameAt'.status = "null" \/ elementNameAt'.name = ""
            THEN "noElement" ELSE "prompt"
  /\ UNCHANGED <<transform, cssRules, tagName, maxRetries, attempts, candidate,
                 gen, probe, documentText, cssFile, promptAttempts,
                 cssPropertyNaming>>

\* the user dismisses the input box
PromptCancelled ==
  /\ cmd = "prompt"
  /\ cmd' = "cancelled"
  /\ UNCHANGED <<transform, elementNameAt, generator, documentText, cssFile,
                 promptAttempts, cssPropertyNaming>>

\* generateUniqueClassName(cssContent, elementName) is called
CallGenerate ==
  /\ tagName' = elementNameAt.name
  /\ maxRetries' = DefaultMaxRetries
  /\ attempts' = 0
  /\ candidate' = ""
  /\ gen' = "start"
  /\ cmd' = "generating"
  /\ UNCHANGED <<cssRules, cssContent, probe>>

\* transformJsxStyleToClassName is called with the class name
CallTransform(name) ==
  /\ className' = name
  /\ pc' = "locate"
  /\ cmd' = "transforming"
  /\ UNCHANGED <<doc, ast, sourceCode, offset, classAttribute, styleAttr,
                 styleExpr, remaining, staticStyles, dynamicProperties, edits,
                 transformedCode, result>>

\* the user leaves the input box empty: a name is generated
PromptEmpty ==
  /\ cmd = "prompt"
  /\ CallGenerate
  /\ UNCHANGED <<transform, elementNameAt, documentText, cssFile,
                 promptAttempts, cssPropertyNaming>>

\* the user types a name that is not in the CSS module
PromptNewName ==
  /\ cmd = "prompt"
  /\ \E name \in TypedNames :
       /\ ~classExists(cssContent, name)
       /\ CallTransform(name)
  /\ UNCHANGED <<elementNameAt, generator, documentText, cssFile,
                 promptAttempts, cssPropertyNaming>>

\* the user types a name that exists: asked again
PromptAgain ==
  /\ cmd = "prompt"
  /\ \E name \in TypedNames : classExists(cssContent, name)
  /\ promptAttempts + 1 < MaxAttempts
  /\ promptAttempts' = promptAttempts + 1
  /\ UNCHANGED <<transform, elementNameAt, generator, cmd, documentText,
                 cssFile, cssPropertyNaming>>

\* the user types a name that exists for the tenth time: a name is generated
PromptExhausted ==
  /\ cmd = "prompt"
  /\ \E name \in TypedNames : classExists(cssContent, name)
  /\ promptAttempts + 1 >= MaxAttempts
  /\ promptAttempts' = promptAttempts + 1
  /\ CallGenerate
  /\ UNCHANGED <<transform, elementNameAt, documentText, cssFile,
                 cssPropertyNaming>>

\* generateUniqueClassName has returned
NameGenerated ==
  /\ cmd = "generating"
  /\ gen = "returned"
  /\ CallTransform(candidate)
  /\ UNCHANGED <<elementNameAt, generator, documentText, cssFile,
                 promptAttempts, cssPropertyNaming>>

\* generateUniqueClassName has thrown: the command ends with the error
GenerationFailed ==
  /\ cmd = "generating"
  /\ gen = "thrown"
  /\ cmd' = "failed"
  /\ UNCHANGED <<transform, elementNameAt, generator, documentText, cssFile,
                 promptAttempts, cssPropertyNaming>>

\* the transform returned null: 'No inline style found at cursor position'
NoStyleFound ==
  /\ cmd = "transforming"
  /\ pc = "done"
  /\ result = Null
  /\ cmd' = "noStyle"
  /\ UNCHANGED <<transform, elementNameAt, generator, documentText, cssFile,
                 promptAttempts, cssPropertyNaming>>

\* the transform returned a result: the rule is appended to the CSS module
\* file, the document is replaced by the transformed code, with the import
\* before it when the document does not name the module, and saved
WriteAndReplace ==
  /\ cmd = "transforming"
  /\ pc = "done"
  /\ result.status = "value"
  /\ cssFile' =
       FileState(TRUE, EndedWithNewline(cssContent)
                       \o NewRule(className, result.extractedStyles,
                                  cssPropertyNaming))
  /\ documentText' =
       WithImport(documentText, result.transformedCode, FileBaseName)
  /\ cmd' = "done"
  /\ UNCHANGED <<transform, elementNameAt, generator, promptAttempts,
                 cssPropertyNaming>>

(***************************************************************************)
(* A session: the command is run again on the document it has written, and *)
(* the CSS module file is written from outside while a command waits for   *)
(* the input box.                                                          *)
(***************************************************************************)
\* the number of places where p is written in s, from offset i on
RECURSIVE CountFrom(_, _, _)
CountFrom(s, p, i) ==
  IF IndexFrom(s, p, i) < 0 THEN 0
  ELSE 1 + CountFrom(s, p, IndexFrom(s, p, i) + Len(p))

\* the rules the command has written into the file: each begins .name {
\* and a line feed
CommandsDone == CountFrom(cssFile.text, " {\n", 0)

\* the command is run again, on the document as the last command left it,
\* the cursor in the tag name of the same element
CommandAgain ==
  /\ cmd = "done"
  /\ CommandsDone < MaxCommands
  /\ doc' = [(IF Len(result.extractedStyles) = 0 THEN doc
              ELSE WrittenDocument(doc,
                     FindAttribute(ast, ast[styleAttr].parent,
                                   classAttribute) # 0,
                     ResidualStyle(dynamicProperties), classAttribute,
                     ClassNameValue(className)))
               EXCEPT !.prefix =
                 Slice(documentText, 0,
                       Len(documentText) - Len(result.transformedCode)) \o @]
  /\ ast' = Parse(doc')
  /\ sourceCode' = documentText
  /\ offset' = offset + Len(documentText) - Len(result.transformedCode)
  /\ className' = ""
  /\ pc' = "idle"
  /\ styleAttr' = 0
  /\ styleExpr' = 0
  /\ remaining' = << >>
  /\ staticStyles' = << >>
  /\ dynamicProperties' = << >>
  /\ edits' = << >>
  /\ transformedCode' = ""
  /\ result' = Pending
  /\ elementNameAt' = NamePending
  /\ cssContent' = ""
  /\ tagName' = ""
  /\ maxRetries' = 0
  /\ attempts' = 0
  /\ candidate' = ""
  /\ gen' = "idle"
  /\ cmd' = "start"
  /\ promptAttempts' = 0
  /\ UNCHANGED <<classAttribute, cssRules, probe, documentText, cssFile,
                 cssPropertyNaming>>

\* while the command waits for the input box, the user or another run of
\* the command appends a rule to the CSS module file
ExternalEdit ==
  /\ cmd = "prompt"
  /\ ~Includes(cssFile.text, ExternalRule)
  /\ cssFile' = FileState(TRUE, EndedWithNewline(cssFile.text) \o ExternalRule)
  /\ UNCHANGED <<transform, elementNameAt, generator, cmd, documentText,
                 promptAttempts, cssPropertyNaming>>

NextCommand ==
  \/ NoActiveEditor
  \/ CommandStart
  \/ PromptCancelled
  \/ PromptEmpty
  \/ PromptNewName
  \/ PromptAgain
  \/ PromptExhausted
  \/ FirstCandidate
  \/ Retry
  \/ ThrowMaxRetries
  \/ ReturnClassName
  \/ NameGenerated
  \/ GenerationFailed
  \/ Next
  \/ NoStyleFound
  \/ WriteAndReplace

SpecCommand == InitCommand /\ [][NextCommand]_vars

InitSession == CommandInit(SessionDocuments, SessionFiles)

\* the commands of a session in which the user types every class name
NextSession ==
  \/ NoActiveEditor
  \/ CommandStart
  \/ PromptCancelled
  \/ PromptNewName
  \/ PromptAgain
  \/ Next
  \/ NoStyleFound
  \/ WriteAndReplace
  \/ CommandAgain
  \/ ExternalEdit

SpecSession == InitSession /\ [][NextSession]_vars

TypeOK ==
  /\ pc \in {"locate", "extract", "apply", "done"}
  /\ result.status \in {"pending", "null", "value"}
  /\ (pc = "done") = (result.status # "pending")

(***************************************************************************)
(* What the claims speak about: the entries of the style object as they    *)
(* are written, and the attributes read back from the text returned.       *)
(***************************************************************************)
EntryAt(i) == Catalogue[doc.props[i]]
EntryCount == Len(doc.props)

\* the value forms the specification lists as static
StaticForms == {"string", "number", "boolean", "template0"}

\* a keyed entry with a plain (identifier or string) key
PlainKeyed(c) ==
  c.ptype = "Property" /\ ~c.computed /\ c.kind = "init"
  /\ c.keyForm \in {"identifier", "string"}

\* the entry is static according to the specification
SpecStatic(c) == PlainKeyed(c) /\ c.valForm \in StaticForms

\* the name of a plain key as it is written
NameAsWritten(c) ==
  IF c.keyForm = "identifier" THEN c.keyText
  ELSE Unescape(Slice(c.keyText, 1, Len(c.keyText) - 1))

PropertyNodes == ChildrenOf(ast, styleExpr, "properties")
Visited == Len(PropertyNodes) - Len(remaining)

\* entry i was put into dynamicProperties
IsDynamicAt(i) ==
  \E j \in 1..Len(dynamicProperties) :
    dynamicProperties[j].start = ast[PropertyNodes[i]].start
DynamicRank(i) == Cardinality({j \in 1..i : IsDynamicAt(j)})
StaticRank(i) == i - DynamicRank(i)

Finished == pc = "done" /\ result.status = "value"


WhiteSpace == {" ", "\n"}

RECURSIVE TrimLeft(_)
TrimLeft(s) ==
  IF Len(s) > 0 /\ CharAt(s, 0) \in WhiteSpace
  THEN TrimLeft(Slice(s, 1, Len(s))) ELSE s

RECURSIVE TrimRight(_)
TrimRight(s) ==
  IF Len(s) > 0 /\ CharAt(s, Len(s) - 1) \in WhiteSpace
  THEN TrimRight(Slice(s, 0, Len(s) - 1)) ELSE s

\* the pieces of s between commas that are followed by white space
RECURSIVE SplitEntries(_, _)
SplitEntries(s, i) ==
  IF Len(s) = 0 THEN << >>
  ELSE IF i >= Len(s) THEN << s >>
  ELSE IF CharAt(s, i) = "," /\ CharAt(s, i + 1) \in WhiteSpace
       THEN << Slice(s, 0, i) >>
            \o SplitEntries(TrimLeft(Slice(s, i + 1, Len(s))), 0)
       ELSE SplitEntries(s, i + 1)

\* the text between the braces of the style object of code, "" if code has
\* no style object
StyleObjectInner(code) ==
  LET i == IndexFrom(code, "style={{", 0)
  IN  IF i < 0 THEN ""
      ELSE Slice(code, i + 8, IndexFrom(code, "}}", i + 8))

\* the entries of the style object of code, as text
ResidualEntries(code) ==
  SplitEntries(TrimRight(TrimLeft(StyleObjectInner(code))), 0)

\* the class reference the specification asks for: dot access exactly for
\* names matching ^[A-Za-z][A-Za-z0-9]*$
Letters == Lower \cup Upper
MatchesIdentifier(name) ==
  /\ Len(name) > 0
  /\ CharAt(name, 0) \in Letters
  /\ \A i \in 0..(Len(name) - 1) : CharAt(name, i) \in Letters \cup Digit
DotReference(name) == "styles." \o name
BracketReference(name) == "styles[\"" \o name \o "\"]"
ExpectedReference(name) ==
  IF MatchesIdentifier(name) THEN DotReference(name) ELSE BracketReference(name)

\* the texts of the entries that are dynamic according to the specification
RECURSIVE DynamicTexts(_)
DynamicTexts(props) ==
  IF Len(props) = 0 THEN << >>
  ELSE (IF SpecStatic(Catalogue[props[1]]) THEN << >>
        ELSE << Catalogue[props[1]].text >>) \o DynamicTexts(Tail(props))

\* the names of the entries that are static according to the specification
RECURSIVE StaticNames(_)
StaticNames(props) ==
  IF Len(props) = 0 THEN << >>
  ELSE (IF SpecStatic(Catalogue[props[1]])
        THEN << NameAsWritten(Catalogue[props[1]]) >> ELSE << >>)
       \o StaticNames(Tail(props))

ExtractedNames == [k \in 1..Len(result.extractedStyles) |->
                     result.extractedStyles[k].name]

(***************************************************************************)
(* C1  Partition completeness: after extractStyles has visited n           *)
(* properties, staticStyles and dynamicProperties together hold exactly n  *)
(* items; every dynamic item is the span and text of one visited property, *)
(* the dynamic items follow source order without repetition, and the       *)
(* properties not among them are, in source order, the static items.       *)
(***************************************************************************)
PartitionComplete ==
  (pc # "locate" /\ styleExpr # 0) =>
    /\ Len(staticStyles) + Len(dynamicProperties) = Visited
    /\ \A j \in 1..Len(dynamicProperties) :
         \E i \in 1..Visited :
           /\ dynamicProperties[j].start = ast[PropertyNodes[i]].start
           /\ dynamicProperties[j].end = ast[PropertyNodes[i]].end
           /\ dynamicProperties[j].text = EntryAt(i).text
    /\ \A j, k \in 1..Len(dynamicProperties) :
         j < k => dynamicProperties[j].start < dynamicProperties[k].start
    /\ \A i \in 1..Visited :
         ~IsDynamicAt(i) =>
           /\ StaticRank(i) \in 1..Len(staticStyles)
           /\ staticStyles[StaticRank(i)].name = NameAsWritten(EntryAt(i))

PartitionWitness ==
  /\ pc = "extract" /\ remaining = << >>
  /\ Len(staticStyles) >= 1
  /\ Len(dynamicProperties) >= 1
  /\ Visited = MaxProps

(***************************************************************************)
(* The style an element ends up with.  A valuation gives the run-time      *)
(* values of the dynamic expressions: the identifier c, the object sp that *)
(* is spread, the computed key k, and one value for every other dynamic    *)
(* expression.  A value of "undefined" or "null" sets nothing.             *)
(***************************************************************************)
Write(name, value) == [name |-> name, value |-> value]

Valuations ==
  [c : {"blue", "undefined"},
   sp : {<< >>, << Write("color", "green") >>},
   k : {"color", "width"},
   other : {"7"}]

\* the value the expression of entry e has at run time
RuntimeValue(e, v) ==
  CASE e.valForm \in {"string", "number", "boolean", "null", "regexp"} ->
         ToJSString(LiteralValue(e.valForm, e.valText))
    [] e.valForm = "template0" ->
         Unescape(Slice(e.valText, 1, Len(e.valText) - 1))
    [] e.valForm = "identifier" /\ e.valText = "c" -> v.c
    [] OTHER -> v.other

\* the properties the entry e writes at run time
WritesOf(e, v) ==
  IF e.ptype = "SpreadElement" THEN v.sp
  ELSE IF e.computed /\ e.keyForm = "identifier"
       THEN << Write(v.k, RuntimeValue(e, v)) >>
  ELSE IF e.keyForm = "number" THEN << Write(e.keyText, RuntimeValue(e, v)) >>
  ELSE << Write(NameAsWritten(e), RuntimeValue(e, v)) >>

RECURSIVE LastWrite(_, _)
LastWrite(ws, name) ==
  IF Len(ws) = 0 THEN "unset"
  ELSE IF ws[Len(ws)].name = name THEN ws[Len(ws)].value
  ELSE LastWrite(SubSeq(ws, 1, Len(ws) - 1), name)

Effective(value) == IF value \in {"undefined", "null"} THEN "unset" ELSE value

EntryOfText(text) ==
  Catalogue[CHOOSE i \in 1..Len(Catalogue) : Catalogue[i].text = text]

RECURSIVE WritesOfEntries(_, _)
WritesOfEntries(es, v) ==
  IF Len(es) = 0 THEN << >>
  ELSE WritesOf(es[1], v) \o WritesOfEntries(Tail(es), v)

CssNames ==
  {NameAsWritten(Catalogue[i]) : i \in {j \in 1..Len(Catalogue) :
                                         Catalogue[j].keyForm # "none"}}

\* the style before the extraction: the last writer among the entries of
\* the style object wins
StyleBefore(v, name) ==
  Effective(LastWrite(WritesOfEntries([i \in 1..EntryCount |-> EntryAt(i)], v),
                      name))

\* the style after the extraction: the declarations of the class, when the
\* element refers to it, overridden by the inline style object left in the
\* text returned
StyleAfter(v, name) ==
  LET texts == ResidualEntries(result.transformedCode)
      inline == Effective(LastWrite(
                  WritesOfEntries([i \in 1..Len(texts) |-> EntryOfText(texts[i])],
                                  v), name))
      declared == IF Includes(result.transformedCode, "{styles")
                  THEN Effective(LastWrite(result.extractedStyles, name))
                  ELSE "unset"
  IN  IF inline # "unset" THEN inline ELSE declared

(***************************************************************************)
(* C2  Behaviour preservation: for every run-time valuation, every CSS     *)
(* property has the same effective value on the element after the          *)
(* extraction as before it.                                                *)
(***************************************************************************)
BehaviourPreserved ==
  Finished =>
    \A v \in Valuations : \A name \in CssNames :
      StyleAfter(v, name) = StyleBefore(v, name)

(***************************************************************************)
(* C3  The classifier accepts a closed set of value forms: the value of a  *)
(* plainly keyed entry is classified static exactly when it is a string,   *)
(* numeric or boolean literal or a template literal without                *)
(* interpolation.                                                          *)
(***************************************************************************)
ClassifierClosedSet ==
  (pc = "extract" /\ remaining = << >>) =>
    \A i \in 1..EntryCount :
      PlainKeyed(EntryAt(i)) =>
        (~IsDynamicAt(i) <=> EntryAt(i).valForm \in StaticForms)

(***************************************************************************)
(* C4  The text emitted for a static value: the decoded value of a string  *)
(* literal, the source text of a numeric literal, the keyword of a boolean *)
(* literal, the raw content between the delimiters of a template literal   *)
(* without interpolation.                                                  *)
(***************************************************************************)
SpecifiedStaticText(e) ==
  CASE e.valForm = "string" -> Unescape(Slice(e.valText, 1, Len(e.valText) - 1))
    [] e.valForm = "template0" -> Slice(e.valText, 1, Len(e.valText) - 1)
    [] OTHER -> e.valText

StaticTextAsSpecified ==
  (pc = "extract" /\ remaining = << >>) =>
    \A i \in 1..EntryCount :
      (SpecStatic(EntryAt(i)) /\ ~IsDynamicAt(i)) =>
        staticStyles[StaticRank(i)].value = SpecifiedStaticText(EntryAt(i))

(***************************************************************************)
(* C5  An entry with a computed key is always dynamic: it is recorded in   *)
(* dynamicProperties with its full source text, it adds nothing to         *)
(* extractedStyles, and the style object of the text returned holds its    *)
(* source text at its place among the dynamic entries.                     *)
(***************************************************************************)
ComputedKeyDynamic ==
  Finished =>
    /\ Len(result.extractedStyles) + Len(dynamicProperties) = EntryCount
    /\ \A i \in 1..EntryCount :
         EntryAt(i).computed =>
           /\ IsDynamicAt(i)
           /\ dynamicProperties[DynamicRank(i)].text = EntryAt(i).text
           /\ LET kept == ResidualEntries(result.transformedCode)
              IN  /\ DynamicRank(i) <= Len(kept)
                  /\ kept[DynamicRank(i)] = EntryAt(i).text

ComputedKeyWitness ==
  /\ Finished
  /\ Len(result.extractedStyles) >= 1
  /\ \E i \in 1..EntryCount :
       /\ EntryAt(i).computed /\ EntryAt(i).valForm = "string"
       /\ \E j \in 1..(i - 1) : ~IsDynamicAt(j)

(***************************************************************************)
(* C6  A spread entry is always dynamic: it adds nothing to                *)
(* extractedStyles, its recorded text is the source slice of the spread,   *)
(* the style object of the text returned holds it at its place among the   *)
(* dynamic entries, and the static entries before and after it are         *)
(* extracted.                                                              *)
(***************************************************************************)
SpreadDynamic ==
  (Finished /\ \E i \in 1..EntryCount : EntryAt(i).ptype = "SpreadElement") =>
    /\ Len(result.extractedStyles) + Len(dynamicProperties) = EntryCount
    /\ \A i \in 1..EntryCount :
         EntryAt(i).ptype = "SpreadElement" =>
           /\ IsDynamicAt(i)
           /\ dynamicProperties[DynamicRank(i)].text
                = Slice(sourceCode, ast[PropertyNodes[i]].start,
                        ast[PropertyNodes[i]].end)
           /\ dynamicProperties[DynamicRank(i)].text = "..." \o EntryAt(i).valText
           /\ LET kept == ResidualEntries(result.transformedCode)
              IN  /\ DynamicRank(i) <= Len(kept)
                  /\ kept[DynamicRank(i)] = EntryAt(i).text
    /\ \A i \in 1..EntryCount :
         SpecStatic(EntryAt(i)) =>
           /\ ~IsDynamicAt(i)
           /\ StaticRank(i) <= Len(result.extractedStyles)
           /\ result.extractedStyles[StaticRank(i)].name
                = NameAsWritten(EntryAt(i))

SpreadWitness ==
  /\ Finished
  /\ EntryCount = 3
  /\ SpecStatic(EntryAt(1))
  /\ EntryAt(2).ptype = "SpreadElement"
  /\ SpecStatic(EntryAt(3))
  /\ Len(result.extractedStyles) = 2

(***************************************************************************)
(* C7  No-op on all-dynamic styles: when no entry of the style object of   *)
(* the element is static (string, numeric, boolean or interpolation-free   *)
(* template value under a plain key), the result is not null, its          *)
(* transformedCode is the input text and its extractedStyles is empty.     *)
(***************************************************************************)
NoOpOnAllDynamic ==
  (pc = "done" /\ styleExpr # 0
   /\ \A i \in 1..EntryCount : ~SpecStatic(EntryAt(i))) =>
    /\ result.status = "value"
    /\ result.transformedCode = sourceCode
    /\ result.extractedStyles = << >>

(***************************************************************************)
(* C8  All-static extraction without a class attribute: when every entry   *)
(* is static and the element has no attribute named classAttribute, the    *)
(* text returned is the input with the style attribute replaced by         *)
(* classAttribute={reference}, it holds no style attribute, and            *)
(* extractedStyles lists every entry in source order under its name as     *)
(* written.                                                                *)
(***************************************************************************)
RECURSIVE ReplaceStyle(_, _)
ReplaceStyle(attrs, text) ==
  IF Len(attrs) = 0 THEN << >>
  ELSE << IF attrs[1].kind = "style"
          THEN [kind |-> "class",
                sep |-> IF attrs[1].sep = " " THEN " " ELSE attrs[1].sep \o " ",
                text |-> text]
          ELSE attrs[1] >> \o ReplaceStyle(Tail(attrs), text)

AllStaticWithoutClass ==
  /\ Finished
  /\ EntryCount >= 1
  /\ \A i \in 1..EntryCount : SpecStatic(EntryAt(i))
  /\ (doc.cls = "none" \/ classAttribute # "class")

AllStaticExtraction ==
  AllStaticWithoutClass =>
    /\ result.transformedCode
         = doc.prefix \o "<div"
           \o AttrsText(ReplaceStyle(AttrList(doc),
                          classAttribute \o "={" \o ExpectedReference(className)
                          \o "}"))
           \o ">x</div>"
    /\ ~Includes(result.transformedCode, "style=")
    /\ Len(result.extractedStyles) = EntryCount
    /\ ExtractedNames = StaticNames(doc.props)
    /\ \A i \in 1..EntryCount :
         EntryAt(i).valForm = "string" =>
           result.extractedStyles[i].value
             = Unescape(Slice(EntryAt(i).valText, 1, Len(EntryAt(i).valText) - 1))

AllStaticWitness ==
  /\ AllStaticWithoutClass
  /\ EntryCount = 2
  /\ EntryAt(1).keyForm = "string"
  /\ EntryAt(2).keyForm = "identifier"
  /\ Includes(result.transformedCode, "<div className={styles.box}>")

(***************************************************************************)
(* C9  Mixed extraction: when the style object has a static and a dynamic  *)
(* entry, the text returned keeps a style attribute whose object holds     *)
(* exactly the dynamic entries as written, joined by ", " in source order, *)
(* the element carries the class attribute with the class reference, and   *)
(* extractedStyles holds exactly the static entries in source order.       *)
(***************************************************************************)
MixedExtraction ==
  (Finished
   /\ (\E i \in 1..EntryCount : SpecStatic(EntryAt(i)))
   /\ (\E i \in 1..EntryCount : ~SpecStatic(EntryAt(i)))) =>
    /\ Includes(result.transformedCode,
                "style={{ " \o Join(DynamicTexts(doc.props), ", ") \o " }}")
    /\ Includes(result.transformedCode, classAttribute \o "=")
    /\ Includes(result.transformedCode, ExpectedReference(className))
    /\ ExtractedNames = StaticNames(doc.props)

(***************************************************************************)
(* C10  Class reference rendering: whenever static styles are extracted    *)
(* and the class attribute receives a reference, the reference written is  *)
(* styles.name exactly when the class name matches ^[A-Za-z][A-Za-z0-9]*$  *)
(* and styles["name"] for every other class name.                          *)
(***************************************************************************)
ReferenceWritten ==
  /\ Finished
  /\ Len(result.extractedStyles) >= 1
  /\ ~(doc.cls = "bare" /\ classAttribute = "class")

ClassReferenceRendering ==
  ReferenceWritten =>
    /\ Includes(result.transformedCode,
                "{" \o ExpectedReference(className) \o "}")
    /\ MatchesIdentifier(className) =>
         ~Includes(result.transformedCode, "styles[")
    /\ ~MatchesIdentifier(className) =>
         ~Includes(result.transformedCode, "styles.")

ClassReferenceWitness ==
  /\ ReferenceWritten
  /\ className = "0a"
  /\ Includes(result.transformedCode, "class={styles[\"0a\"]}")

(***************************************************************************)
(* The spans of the source the rewrite may change: the style attribute,    *)
(* with one space before it, and the value of the attribute named          *)
(* classAttribute that the element already has.                            *)
(***************************************************************************)
ExistingClassAttr == FindAttribute(ast, ast[styleAttr].parent, classAttribute)
ExistingClassValue ==
  IF ExistingClassAttr = 0 THEN 0 ELSE ChildOf(ast, ExistingClassAttr, "value")

StyleSpanStart ==
  IF Slice(sourceCode, ast[styleAttr].start - 1, ast[styleAttr].start) = " "
  THEN ast[styleAttr].start - 1 ELSE ast[styleAttr].start
StyleSpanEnd == ast[styleAttr].end

\* code is text with the span from a to b replaced by some text
ReplacedOnce(code, text, a, b) ==
  /\ Len(code) >= Len(text) - (b - a)
  /\ Slice(code, 0, a) = Slice(text, 0, a)
  /\ Slice(code, Len(code) - (Len(text) - b), Len(code))
       = Slice(text, b, Len(text))

\* code is text with the spans from a1 to b1 and from a2 to b2 (b1 <= a2)
\* replaced by some texts
ReplacedTwice(code, text, a1, b1, a2, b2) ==
  \E i \in a1..Len(code) :
    /\ Slice(code, 0, a1) = Slice(text, 0, a1)
    /\ i + (a2 - b1) + (Len(text) - b2) <= Len(code)
    /\ Slice(code, i, i + (a2 - b1)) = Slice(text, b1, a2)
    /\ Slice(code, Len(code) - (Len(text) - b2), Len(code))
         = Slice(text, b2, Len(text))

(***************************************************************************)
(* C11  Minimal diff: the text returned is the source with only the span   *)
(* of the style attribute (with at most one space before it) and the span  *)
(* of the value of the class attribute already there replaced; every       *)
(* character outside these spans is kept, in order.                        *)
(***************************************************************************)
MinimalDiff ==
  Finished =>
    IF ExistingClassValue = 0
    THEN ReplacedOnce(result.transformedCode, sourceCode,
                      StyleSpanStart, StyleSpanEnd)
    ELSE IF ast[ExistingClassValue].start < StyleSpanStart
    THEN ReplacedTwice(result.transformedCode, sourceCode,
                       ast[ExistingClassValue].start,
                       ast[ExistingClassValue].end,
                       StyleSpanStart, StyleSpanEnd)
    ELSE ReplacedTwice(result.transformedCode, sourceCode,
                       StyleSpanStart, StyleSpanEnd,
                       ast[ExistingClassValue].start,
                       ast[ExistingClassValue].end)

MinimalDiffWitness ==
  /\ Finished
  /\ ExistingClassValue # 0
  /\ ast[ExistingClassValue].start < StyleSpanStart
  /\ Len(dynamicProperties) >= 1
  /\ result.transformedCode # sourceCode

\* the least index at or after from where one of the texts of ps begins in s,
\* Len(s) if none does
RECURSIVE FirstOf(_, _, _)
FirstOf(s, ps, from) ==
  IF Len(ps) = 0 THEN Len(s)
  ELSE IF IndexFrom(s, ps[1], from) < 0 THEN FirstOf(s, Tail(ps), from)
  ELSE Min(IndexFrom(s, ps[1], from), FirstOf(s, Tail(ps), from))

\* the text of the value of the attribute named name in the opening tag of
\* code, "" if the tag has no such attribute with a value
AttributeValueIn(code, name) ==
  IF IndexFrom(code, " " \o name \o "=", 0) < 0 THEN ""
  ELSE Slice(code, IndexFrom(code, " " \o name \o "=", 0) + Len(name) + 2,
             FirstOf(code, << " style=", "\nstyle=", ">" >>,
                     IndexFrom(code, " " \o name \o "=", 0) + Len(name) + 2))

\* the text of the value the class attribute had in the source, without its
\* quotes or braces
OldClassText ==
  Slice(Slice(sourceCode, ast[ExistingClassValue].start,
              ast[ExistingClassValue].end), 1, -1)

(***************************************************************************)
(* C12  Merge with a class attribute already there: when static styles are *)
(* extracted and the element has an attribute named classAttribute with a  *)
(* value, the value written holds the old value and the new class          *)
(* reference, for an expression container and for a string literal alike.  *)
(***************************************************************************)
MergeKeepsOldClass ==
  (Finished /\ Len(result.extractedStyles) >= 1 /\ ExistingClassValue # 0) =>
    /\ Includes(AttributeValueIn(result.transformedCode, classAttribute),
                OldClassText)
    /\ Includes(AttributeValueIn(result.transformedCode, classAttribute),
                ExpectedReference(className))

(***************************************************************************)
(* C13  Separate class attribute: when static styles are extracted from an *)
(* element that already has the attribute named classAttribute, the text   *)
(* returned still holds that attribute as it was written and holds a       *)
(* second attribute classAttribute={reference} of its own.                 *)
(***************************************************************************)
SeparateClassAttribute ==
  (Finished /\ Len(result.extractedStyles) >= 1 /\ ExistingClassAttr # 0) =>
    /\ Includes(result.transformedCode,
                " " \o Slice(sourceCode, ast[ExistingClassAttr].start,
                             ast[ExistingClassAttr].end))
    /\ Includes(result.transformedCode,
                " " \o classAttribute \o "={" \o ExpectedReference(className)
                \o "}")


(***************************************************************************)
(* Position resolution.                                                    *)
(***************************************************************************)
\* node n contains the offset (node.start <= offset <= node.end)
Contains(t, n, off) == t[n].start <= off /\ off <= t[n].end

\* the deepest nodes containing the offset: no child of theirs contains it
DeepestAt(t, off) ==
  {n \in 1..Len(t) :
     /\ Contains(t, n, off)
     /\ \A m \in 1..Len(t) : t[m].parent = n => ~Contains(t, m, off)}

\* a is n or an ancestor of n
AncestorOrSelf(t, a, n) == a = n \/ IsAncestor(t, a, n)

\* attribute a is named style and is bound to an object-literal expression
BoundToObject(t, a) ==
  /\ t[a].type = "JSXAttribute"
  /\ \E nm \in 1..Len(t) :
       t[nm].parent = a /\ t[nm].role = "name" /\ t[nm].name = "style"
  /\ \E v \in 1..Len(t) :
       /\ t[v].parent = a /\ t[v].role = "value"
       /\ t[v].type = "JSXExpressionContainer"
       /\ \E x \in 1..Len(t) :
            /\ t[x].parent = v /\ t[x].role = "expression"
            /\ t[x].type = "ObjectExpression"

\* element e qualifies: its opening tag carries such a style attribute
Qualifies(t, e) ==
  /\ t[e].type = "JSXElement"
  /\ \E o \in 1..Len(t) :
       /\ t[o].parent = e /\ t[o].role = "openingElement"
       /\ \E a \in 1..Len(t) :
            t[a].parent = o /\ t[a].role = "attributes" /\ BoundToObject(t, a)

\* the nearest element of the set accepted among n and its ancestors, 0 when
\* there is none up to the root
NearestIn(t, n, accepted) ==
  LET up == {e \in accepted : AncestorOrSelf(t, e, n)}
  IN  IF up = {} THEN 0
      ELSE CHOOSE e \in up : \A f \in up : AncestorOrSelf(t, f, e)

QualifyingElements(t) == {e \in 1..Len(t) : Qualifies(t, e)}

\* the element the resolver returned, 0 for null
ResolvedElement ==
  IF styleAttr = 0 THEN 0 ELSE ast[ast[styleAttr].parent].parent

QualifyingEncloses ==
  \E e \in QualifyingElements(ast) : Contains(ast, e, offset)

\* C15: whenever no qualifying element encloses the offset (no JSX element
\* there, an enclosing element without a style attribute, with a style
\* attribute that has no value, or with a style value that is no object
\* literal), the transform does nothing but return null
SoftFailure ==
  (pc # "locate" /\ ~QualifyingEncloses) => (pc = "done" /\ result = Null)

\* the cursor is in the tag name of an element whose style attribute has no
\* value, inside an element without a style, and null was returned
SoftFailureWitness ==
  /\ pc = "done" /\ result = Null
  /\ ~QualifyingEncloses
  /\ doc.style = "bare" /\ doc.wrap = "plain"
  /\ offset = CursorOffset(doc, "name")


(***************************************************************************)
(* The name of the element at the offset.                                  *)
(***************************************************************************)
AllElements(t) == {e \in 1..Len(t) : t[e].type = "JSXElement"}

\* the tag name as written in code after the "<" at offset start
TagText(code, start) ==
  Slice(code, start + 1, FirstOf(code, << " ", "\n", ">", "/" >>, start + 1))

\* the name of element e as a result, null for no element
NameResult(t, code, e) ==
  IF e = 0 THEN NameNull ELSE NameOf(TagText(code, t[e].start))

ThreeDigitNumber(text) ==
  /\ Len(text) \in 1..3
  /\ \A i \in 0..(Len(text) - 1) : CharAt(text, i) \in Digit
  /\ Len(text) > 1 => CharAt(text, 0) # "0"

\* name is <tag or "element">-<n> with 0 <= n <= 999
GeneratedForm(name, tag) ==
  /\ StartsWith(name, (IF tag = "" THEN "element" ELSE tag) \o "-")
  /\ ThreeDigitNumber(
       Slice(name, Len(IF tag = "" THEN "element" ELSE tag) + 1, Len(name)))

\* C17: a name generateUniqueClassName returns has the form
\* <tagName or "element">-<n> with n in 0..999 and does not exist in the CSS
\* text according to classExistsInCSS, whatever the text, the tag name,
\* maxRetries and the numbers drawn
UniqueNameReturned ==
  (gen = "returned") =>
    /\ GeneratedForm(candidate, tagName)
    /\ ~classExistsInCSS(cssContent, candidate)

\* a name was returned after a first candidate that was taken, without a tag
\* name and with the greatest number
UniqueNameWitness ==
  /\ gen = "returned"
  /\ attempts >= 1
  /\ tagName = ""
  /\ candidate = "element-999"
  /\ classExistsInCSS(cssContent, "element-0")


\* C18: generateUniqueClassName throws exactly when no candidate it
\* generated is unique: when it has thrown, the candidate it holds (the last
\* one generated, every earlier one having been found in the CSS text) exists
\* in the CSS text, and when it has returned, the name does not
FailsOnlyWithoutUnique ==
  /\ (gen = "thrown") => classExistsInCSS(cssContent, candidate)
  /\ (gen = "returned") => ~classExistsInCSS(cssContent, candidate)


(***************************************************************************)
(* Existing class names.                                                   *)
(***************************************************************************)
\* the CSS module holds a rule whose selector is exactly .name
HasRuleFor(name) ==
  \E k \in 1..Len(cssRules) : cssRules[k].selector = "." \o name

\* the CSS module holds a rule whose selector ends with .name
HasRuleEndingWith(name) ==
  \E k \in 1..Len(cssRules) : EndsWith(cssRules[k].selector, "." \o name)

NothingExtracted ==
  /\ cmd = "transforming"
  /\ pc = "done"
  /\ result.status = "value"
  /\ result.extractedStyles = << >>

\* C20: when the transform reports no static styles (extractedStyles empty)
\* the extract command appends no rule to the CSS module file, adds no
\* import and leaves the document text as it was
NoOpOnNothingExtracted ==
  [][NothingExtracted => (cssFile' = cssFile /\ documentText' = documentText)]_vars


(***************************************************************************)
(* The edits and the text returned.                                        *)
(***************************************************************************)
\* the edits the rewriter plans for the element found, in the order pushed;
\* none when no static style was extracted
PlannedEdits ==
  IF styleAttr = 0 \/ staticStyles = << >> THEN << >>
  ELSE BuildEditList(ast, sourceCode, styleAttr, styleExpr, dynamicProperties,
                     classAttribute, className)

\* the edit of es with the least start
LeastEdit(es) ==
  CHOOSE k \in 1..Len(es) : \A j \in 1..Len(es) : es[k].start <= es[j].start

Without(es, k) == SubSeq(es, 1, k - 1) \o SubSeq(es, k + 1, Len(es))

\* text from offset pos on with every edit of es replaced at once
RECURSIVE AllApplied(_, _, _)
AllApplied(text, es, pos) ==
  IF Len(es) = 0 THEN Slice(text, pos, Len(text))
  ELSE Slice(text, pos, es[LeastEdit(es)].start)
       \o es[LeastEdit(es)].replacement
       \o AllApplied(text, Without(es, LeastEdit(es)), es[LeastEdit(es)].end)

RECURSIVE AppliedInOrder(_, _)
AppliedInOrder(code, es) ==
  IF Len(es) = 0 THEN code ELSE AppliedInOrder(ApplyOne(code, es[1]), Tail(es))

\* C23: when the rewriter has built its edits, each has
\* 0 <= start <= end <= Len(source), each ends where or before the one
\* applied before it starts (also when the removal of the style takes the
\* space after an existing class attribute along), and applying them in that
\* order, descending by start, gives the text all of them give when applied
\* at once to the source
EditsWellFormed ==
  (pc = "apply" /\ transformedCode = sourceCode /\ Len(edits) = Len(PlannedEdits)) =>
    /\ \A k \in 1..Len(edits) :
         /\ 0 <= edits[k].start
         /\ edits[k].start <= edits[k].end
         /\ edits[k].end <= Len(sourceCode)
    /\ \A k \in 1..(Len(edits) - 1) : edits[k + 1].end <= edits[k].start
    /\ AppliedInOrder(sourceCode, edits) = AllApplied(sourceCode, edits, 0)

\* two edits were built whose spans touch: the value of the class attribute
\* and, from the space after it, the style attribute
EditsWellFormedWitness ==
  /\ pc = "apply"
  /\ transformedCode = sourceCode
  /\ Len(edits) = 2
  /\ edits[2].end = edits[1].start
  /\ edits[1].replacement = ""


(***************************************************************************)
(* The node at the offset.                                                 *)
(***************************************************************************)
ContainingNodes(t, off) == {n \in 1..Len(t) : Contains(t, n, off)}

SpanOf(t, n) == t[n].end - t[n].start

\* n has the smallest span among the nodes containing the offset and is the
\* last, in traversal order, of the nodes with that span
SmallestLatest(t, off, n) ==
  /\ n \in ContainingNodes(t, off)
  /\ \A m \in ContainingNodes(t, off) :
       \/ SpanOf(t, n) < SpanOf(t, m)
       \/ SpanOf(t, n) = SpanOf(t, m) /\ m <= n

\* C24: findNodeAtOffset returns, among the nodes whose span contains the
\* offset (both ends inclusive), the one with the smallest span, the later
\* one in traversal order when spans are equal, also when the offset is the
\* boundary two adjacent siblings share; it returns null only when no node
\* contains the offset
SmallestSpanFound ==
  (elementNameAt # NamePending) =>
    IF ContainingNodes(ast, offset) = {} THEN findNodeAtOffset(ast, offset) = 0
    ELSE SmallestLatest(ast, offset, findNodeAtOffset(ast, offset))


\* the value of the class attribute of the text returned refers to the class
ReferenceAttached ==
  \/ Includes(AttributeValueIn(result.transformedCode, classAttribute),
              DotReference(className))
  \/ Includes(AttributeValueIn(result.transformedCode, classAttribute),
              BracketReference(className))

\* C26: whenever the transform returns a result with extracted styles, the
\* text returned has, on the element, an attribute named classAttribute
\* whose value refers to the class name as styles.name or styles["name"],
\* whatever the shape of a class attribute already there, one written
\* without a value included
ClassReferenceAttached ==
  (Finished /\ Len(result.extractedStyles) >= 1) => ReferenceAttached


\* the call of generateUniqueClassName is over
GenerateOver == gen \in {"returned", "thrown"}

\* C25: generateUniqueClassName always terminates: whatever the CSS text
\* (one holding every candidate name included), the retry limit and the
\* numbers drawn, every candidate after the first is counted by attempts,
\* attempts never exceeds maxRetries, so that at most maxRetries + 1
\* candidates are generated, and a call that has begun returns or throws
GenerateTerminates ==
  /\ [](attempts <= maxRetries)
  /\ [][(gen = "loop" /\ gen' = "loop") => attempts' = attempts + 1]_vars
  /\ [][GenerateOver => gen' = gen]_vars
  /\ (gen = "loop") ~> GenerateOver

GenerateTerminatesWitness ==
  /\ gen = "thrown"
  /\ attempts = maxRetries
  /\ maxRetries = MaxRetriesBound
  /\ \A n \in RandomNumbers :
       classExistsInCSS(cssContent, generateRandomClassName(tagName, n))


\* the call in progress is the second one, on the text the first returned
SecondApplication == doc.cls = "written"

\* C30: when the element is the only one with a style attribute around the
\* cursor, the transform applied again to its own output, at the same
\* element, extracts nothing: it returns null when the style attribute was
\* removed, and otherwise a result with extractedStyles empty and
\* transformedCode equal to its input; no static entry was left inline
ExtractsNothingAgain ==
  SecondApplication =>
    /\ sourceCode = SourceText(doc)
    /\ staticStyles = << >>
    /\ pc = "done" =>
         IF doc.style = "none" THEN result = Null
         ELSE /\ result.status = "value"
              /\ result.extractedStyles = << >>
              /\ result.transformedCode = sourceCode

ExtractsNothingAgainWitness ==
  /\ SecondApplication
  /\ pc = "done"
  /\ result.status = "value"
  /\ Len(dynamicProperties) = 2
  /\ Includes(sourceCode, "${cx} ${styles.box}")


\* the command has passed a class name to the transform
ReachedTransform == cmd \in {"transforming", "noStyle", "done"}

\* the number of times the input box was shown
PromptsShown == IF cmd = "prompt" THEN promptAttempts + 1 ELSE promptAttempts

\* C27: in every run of the extract command that reaches the transform, the
\* class name passed to it is one that classExists of css-parser reports
\* absent from the CSS content read at the start of the command, whether it
\* was typed or generated, and the prompt is shown at most 10 times
ClassNameIsNew ==
  /\ ReachedTransform => ~classExists(cssContent, className)
  /\ PromptsShown <= MaxAttempts

\* the ends of the command before the transform has returned a result
EarlyExits == {"noEditor", "noElement", "cancelled", "noStyle"}

\* C28: when there is no active editor, no element at the cursor, the user
\* cancels the prompt or the transform returns null, the command ends
\* without writing the CSS module file and without an edit of the document:
\* no step towards such an end writes, and at such an end the document is
\* the text the command was started on
EarlyExitsNoEffect ==
  /\ [][cmd' # "done" => (cssFile' = cssFile /\ documentText' = documentText)]_vars
  /\ [][(cmd \in EarlyExits) => cmd' = cmd]_vars
  /\ [](cmd \in EarlyExits =>
          /\ documentText = sourceCode
          /\ cmd # "noEditor" =>
               cssContent = IF cssFile.exists THEN cssFile.text ELSE "")

EarlyExitsWitness ==
  /\ cmd = "noStyle"
  /\ promptAttempts = MaxAttempts
  /\ cssFile.exists
  /\ cssFile.text # ""


\* the command writes the CSS module file and replaces the document
CommandWrites == cmd = "transforming" /\ cmd' = "done"

\* C21: the import of the module is written before the document exactly
\* when the text of the document does not hold the module path already, so
\* that, however many commands have succeeded on the document, the command
\* has written the import at most once
ImportAtMostOnce ==
  /\ [][CommandWrites =>
          documentText' =
            IF Includes(documentText, ModulePath(FileBaseName))
            THEN result.transformedCode
            ELSE ImportStatement(FileBaseName) \o result.transformedCode]_vars
  /\ [](CountFrom(documentText, ImportStatement(FileBaseName), 0) <= 1)
  /\ [](cmd = "done" => Includes(documentText, ModulePath(FileBaseName)))
  /\ [](cmd = "start" => documentText = SourceText(doc))

ImportAtMostOnceWitness ==
  /\ cmd = "done"
  /\ CommandsDone = MaxCommands
  /\ CountFrom(documentText, ImportStatement(FileBaseName), 0) = 1
  /\ sourceCode = documentText

\* the classes of the rules of a CSS text
ClassesIn(cssText) ==
  UNION {ClassesOf(selector) : selector \in SelectorsFrom(cssText, 0)}

\* C29: whatever the interleaving of commands and writes from outside, every
\* rule that is in the CSS module file just before a command writes it is
\* in the file just after, also when the file was changed between the
\* command's read and its write, while the input box was open
WritesOnlyAppend ==
  [][CommandWrites => ClassesIn(cssFile.text) \subseteq ClassesIn(cssFile'.text)]_vars

====
